---- MODULE Spec2Model ----
(***************************************************************************)
(* Model of the uplink Serializer (uplink/src/base/serializer.rs): the     *)
(* operational state machine of Serializer::start with its modes direct,   *)
(* normal, disk, catchup and crash, the Metrics accumulators, and the      *)
(* helpers write_to_storage / read_from_storage / get_payload.             *)
(*                                                                         *)
(* The MQTT client (rumqttc) and the segmented disk Storage are external   *)
(* collaborators: every call into them is a nondeterministic choice over   *)
(* the results the call can return.                                        *)
(***************************************************************************)
EXTENDS Integers, Sequences, FiniteSets, TLC

(* ------------------------------ bounds --------------------------------- *)
\* number of Packages the producers put on the collector channel
MaxPackages == 2
\* number of times the 10 s metrics interval fires
MaxTicks == 1
\* number of spool I/O errors the disk produces in one run
MaxIoErrors == 1
\* number of records left in the spool by a previous session
InitSpoolMax == 1
\* number of records the spool keeps before the oldest segment is evicted
SpoolQuota == 1
\* length of the description string of a Package's anomalies
AnomalyLen == 4
\* number of calls made on a Metrics value, or on a DelayMap, studied on
\* its own
MaxCalls == 4
\* longest period a deadline is set to, in clock ticks
MaxPeriod == 2
\* number of clock ticks
MaxTime == 2
\* largest capacity of a Stream's buffer, and the capacity of a dynamic one
BufSize == 2
\* number of payloads filled into a Stream studied on its own
MaxFills == 6
\* number of payloads handed to a StreamHandler
MaxPayloads == 3
\* the flush period of a StreamHandler, in clock ticks
FlushPeriod == 1

(* --------------------------- program constants ------------------------- *)
\* usize::MAX, the clamp of saturating_add; scaled to the checker's integers
UsizeMax == 2147483647
\* bytes of the serialized Metrics besides the digits of its counters and
\* the errors string: punctuation and field names (110) and a 13 digit
\* millisecond timestamp
MetricsJsonBase == 123

\* the number of streams handle_data compares streams.len() with
StreamCap == 20

DataTopic == "stream"
MetricsTopic == "metrics"

(* ------------------------------ values --------------------------------- *)
\* a byte vector: its length and what it carries
NoPayload == [len |-> 0, content |-> <<>>]
NoPublish == [topic |-> "none", payload |-> NoPayload, pkid |-> 0]

NoAnomalies == <<>>
SomeAnomalies == <<[errors |-> AnomalyLen, count |-> 1]>>

Last(s) == s[Len(s)]
Front(s) == SubSeq(s, 1, Len(s) - 1)

RECURSIVE Digits(_)
Digits(n) == IF n < 10 THEN 1 ELSE 1 + Digits(n \div 10)

RECURSIVE SumLen(_)
\* length of the errors string: every description is followed by " | "
SumLen(errs) == IF errs = <<>> THEN 0 ELSE Head(errs) + 3 + SumLen(Tail(errs))

VARIABLES
    storage,         \* Serializer.storage is Some (TRUE) or None (FALSE)
    spool,           \* the records held by the Storage, oldest first
    status,          \* the Status of Serializer::start's loop
    status_publish,  \* the Publish carried by SlowEventloop / EventLoopCrash
    pc,              \* where the serializer is suspended
    result,          \* what Serializer::start returned, "running" before
    send,            \* the Publish of the pinned blocking publish future
    chan,            \* collector channel: Packages sent and not yet received
    senders_open,    \* some Sender of the collector channel is alive
    produced,        \* number of Packages produced so far
    ticks,           \* number of metrics interval ticks so far
    metrics,         \* Serializer.metrics
    calls,           \* every completed publish call on the MQTT client
    logged,          \* error!() lines of the spool helpers, and the mode
    drained,         \* every Publish read back from the spool, in order
    spooled,         \* every Publish the spool ever held, in order
    evictions,       \* number of segments evicted by flush_on_overflow
    flush_handler,   \* StreamHandler.flush_handler, a DelayMap
    now,             \* the clock the DelayQueue deadlines are measured on
    streams,         \* StreamHandler.streams, stream name -> Stream
    data_tx,         \* every Package sent on the Streams' outbound channel
    last,            \* the last call on the component under study
    removed,         \* keys taken off the DelayMap by remove() since they
                     \* were last scheduled
    bridge           \* the Bridge, its connection and its actions channel

\* the variables of the Serializer and its environment
ser_vars == <<storage, spool, status, status_publish, pc, result, send, chan,
              senders_open, produced, ticks, metrics, calls, logged,
              drained, spooled, evictions>>

\* the variables of the collector side: DelayMap, Stream, StreamHandler,
\* Bridge
ext_vars == <<flush_handler, now, streams, data_tx, last, removed, bridge>>

vars == <<ser_vars, ext_vars>>

(* ------------------------------ Metrics -------------------------------- *)
\* wrapping_add: the sum modulo UsizeMax + 1
saturating_add_Wrapping(a, b) ==
    IF a > UsizeMax - b THEN a - (UsizeMax - b) - 1 ELSE a + b

saturating_add(a, b) == IF a > UsizeMax - b THEN UsizeMax ELSE a + b
saturating_sub(a, b) == IF b > a THEN 0 ELSE a - b

MetricsNew ==
    [sequence |-> 0, total_sent_size |-> 0, total_disk_size |-> 0,
     lost_segments |-> 0, errors |-> <<>>, error_count |-> 0]

add_total_sent_size(m, size) ==
    [m EXCEPT !.total_sent_size = saturating_add(m.total_sent_size, size)]

add_total_disk_size(m, size) ==
    [m EXCEPT !.total_disk_size = saturating_add(m.total_disk_size, size)]

sub_total_disk_size(m, size) ==
    [m EXCEPT !.total_disk_size = saturating_sub(m.total_disk_size, size)]

increment_lost_segments(m) ==
    [m EXCEPT !.lost_segments = m.lost_segments + 1]

add_errors(m, error, count) ==
    LET m1 == [m EXCEPT !.error_count = m.error_count + count]
    IN  IF SumLen(m1.errors) > 1024
        THEN m1
        ELSE [m1 EXCEPT !.errors = Append(m1.errors, error)]

\* serde_json::to_vec(&vec![&self]): the bytes of the one-element JSON array
MetricsJson(m) ==
    [len |-> MetricsJsonBase + Digits(m.sequence) + Digits(m.total_sent_size)
             + Digits(m.total_disk_size) + Digits(m.lost_segments)
             + SumLen(m.errors) + Digits(m.error_count),
     content |-> <<m.sequence, m.total_sent_size, m.total_disk_size,
                   m.lost_segments, m.error_count>> \o m.errors]

\* Metrics::next clearing errors and lost_segments before serializing
MetricsNext_ClearFirst(m) ==
    LET m1 == [m EXCEPT !.sequence = m.sequence + 1, !.errors = <<>>,
                        !.lost_segments = 0]
    IN  [topic |-> MetricsTopic,
         payload |-> MetricsJson(m1),
         metrics |-> m1]

\* Metrics::next: the topic, the payload, and the metrics afterwards
MetricsNext(m) ==
    LET m1 == [m EXCEPT !.sequence = m.sequence + 1]
    IN  [topic |-> MetricsTopic,
         payload |-> MetricsJson(m1),
         metrics |-> [m1 EXCEPT !.errors = <<>>, !.lost_segments = 0]]

get_payload(data, m) ==
    LET m1 == IF data.anomalies # NoAnomalies
              THEN add_errors(m, data.anomalies[1].errors,
                              data.anomalies[1].count)
              ELSE m
    IN  [topic |-> data.topic, payload_size |-> data.payload.len,
         payload |-> data.payload, metrics |-> m1]

(* ------------------------- Storage (consumed contract) ----------------- *)
\* results the disk can give now: an error only while the run's error
\* budget lasts
IoResults == IF Len(logged) < MaxIoErrors THEN {"Ok", "Err"} ELSE {"Ok"}

\* publish.write(&mut storage.writer())
StorageWrite(sp, publish, res) ==
    IF res = "Ok" THEN Append(sp, publish) ELSE sp

\* storage.flush_on_overflow(): Ok(Some(deleted)) when the oldest segment
\* was evicted to stay within quota
StorageFlushOnOverflow(sp, res) ==
    IF res = "Ok" /\ Len(sp) > SpoolQuota
    THEN [deleted |-> TRUE, spool |-> Tail(sp)]
    ELSE [deleted |-> FALSE, spool |-> sp]

\* storage.reload_on_eof(): Ok(true) iff no more data remains
StorageReloadOnEof(sp, res) ==
    IF res = "Err" THEN "Err" ELSE IF sp = <<>> THEN "Done" ELSE "More"

\* read(storage.reader(), max_packet_size): one Publish at a time
StorageRead(sp, res) ==
    IF res = "Ok"
    THEN [ret |-> "Ok", publish |-> Head(sp), spool |-> Tail(sp)]
    ELSE [ret |-> "Err", publish |-> NoPublish, spool |-> sp]

(* --------------------------- spool helpers ----------------------------- *)
\* write_to_storage returning Ok without handing the Publish to the Storage
write_to_storage_Discard(data, m, st, sp, wres, fres) ==
    IF ~st
    THEN [ret |-> "MissingPersistence", metrics |-> m, spool |-> sp,
          log |-> <<>>, written |-> <<>>, deleted |-> FALSE]
    ELSE
      LET g == get_payload(data, m)
      IN  IF wres = "Err"
          THEN [ret |-> "Ok", metrics |-> g.metrics, spool |-> sp,
                log |-> <<"Failed to fill disk buffer">>,
                written |-> <<>>, deleted |-> FALSE]
          ELSE [ret |-> "Ok",
                metrics |-> add_total_disk_size(g.metrics, g.payload_size),
                spool |-> sp, log |-> <<>>, written |-> <<>>,
                deleted |-> FALSE]

write_to_storage(data, m, st, sp, wres, fres) ==
    IF ~st
    THEN [ret |-> "MissingPersistence", metrics |-> m, spool |-> sp,
          log |-> <<>>, written |-> <<>>, deleted |-> FALSE]
    ELSE
      LET g == get_payload(data, m)
          publish == [topic |-> g.topic, payload |-> g.payload, pkid |-> 1]
      IN  IF wres = "Err"
          THEN [ret |-> "Ok", metrics |-> g.metrics, spool |-> sp,
                log |-> <<"Failed to fill disk buffer">>,
                written |-> <<>>, deleted |-> FALSE]
          ELSE
            LET m1 == add_total_disk_size(g.metrics, g.payload_size)
                sp1 == StorageWrite(sp, publish, wres)
                f == StorageFlushOnOverflow(sp1, fres)
            IN  IF fres = "Err"
                THEN [ret |-> "Ok", metrics |-> m1, spool |-> f.spool,
                      log |-> <<"Failed to flush write buffer">>,
                      written |-> <<publish>>, deleted |-> FALSE]
                ELSE [ret |-> "Ok",
                      metrics |-> IF f.deleted
                                  THEN increment_lost_segments(m1) ELSE m1,
                      spool |-> f.spool, log |-> <<>>,
                      written |-> <<publish>>, deleted |-> f.deleted]

\* read_from_storage taking Ok(false) of reload_on_eof for the end of data
read_from_storage_EofSwapped(st, sp, eres, rres) ==
    IF ~st
    THEN [ret |-> "MissingPersistence", publish |-> NoPublish, spool |-> sp,
          log |-> <<>>]
    ELSE
      LET e == StorageReloadOnEof(sp, eres)
      IN  CASE e = "More" ->
                 [ret |-> "None", publish |-> NoPublish, spool |-> sp,
                  log |-> <<>>]
            [] e = "Err" ->
                 [ret |-> "None", publish |-> NoPublish, spool |-> sp,
                  log |-> <<"Failed to reload storage">>]
            [] OTHER ->
                 [ret |-> "None", publish |-> NoPublish, spool |-> sp,
                  log |-> <<"Failed to read from storage">>]

read_from_storage(st, sp, eres, rres) ==
    IF ~st
    THEN [ret |-> "MissingPersistence", publish |-> NoPublish, spool |-> sp,
          log |-> <<>>]
    ELSE
      LET e == StorageReloadOnEof(sp, eres)
      IN  CASE e = "Done" ->
                 [ret |-> "None", publish |-> NoPublish, spool |-> sp,
                  log |-> <<>>]
            [] e = "Err" ->
                 [ret |-> "None", publish |-> NoPublish, spool |-> sp,
                  log |-> <<"Failed to reload storage">>]
            [] OTHER ->
                 LET r == StorageRead(sp, rres)
                 IN  IF r.ret = "Ok"
                     THEN [ret |-> "Some", publish |-> r.publish,
                           spool |-> r.spool, log |-> <<>>]
                     ELSE [ret |-> "None", publish |-> NoPublish,
                           spool |-> r.spool,
                           log |-> <<"Failed to read from storage">>]

\* send_publish(client, topic, payload): publish_bytes builds a new Publish
send_publish(topic, payload) ==
    [topic |-> topic, payload |-> payload, pkid |-> 0]

(* ------------------------------- Init ---------------------------------- *)
\* records a previous session left in the spool
OldRecord(i) ==
    [topic |-> DataTopic, payload |-> [len |-> 1, content |-> <<0 - i>>],
     pkid |-> 1]

OldSpool(n) == [i \in 1..n |-> OldRecord(i)]

\* a HashMap without entries
EmptyMap == [x \in {} |-> 0]
\* DelayMap::new
DelayMapNew == [queue |-> {}, map |-> EmptyMap]

\* no call has been made yet
NoCall == [op |-> "none"]

\* the first deadline of the pinned action_timeout, in seconds
FirstTimeout == 100

\* Bridge::new: no action pending (an Option is a sequence of at most one
\* element); with it the actions channel (nothing
\* sent, Senders alive) and what collect keeps while it runs: the deadline
\* of action_timeout, the actions written to the application, the frames
\* read from it and the actions it answered, the action_status payloads
\* handed to the StreamHandler, the ActionResponses filled into
\* action_status and what collect returned
BridgeNew ==
    [current_action |-> <<>>,
     action_timeout |-> FirstTimeout,
     actions_rx |-> <<>>,
     actions_open |-> TRUE,
     actions |-> 0,
     written |-> <<>>,
     frames |-> 0,
     answered |-> {},
     handled |-> <<>>,
     action_status |-> <<>>,
     result |-> "running"]

\* the collector side before anything is constructed
ExtIdle ==
    /\ flush_handler = DelayMapNew
    /\ now = 0
    /\ streams = <<>>
    /\ data_tx = <<>>
    /\ last = NoCall
    /\ removed = {}
    /\ bridge = BridgeNew

Init ==
    /\ storage \in BOOLEAN
    /\ \E n \in 0..InitSpoolMax : spool = IF storage THEN OldSpool(n) ELSE <<>>
    /\ status = "None"
    /\ status_publish = NoPublish
    /\ pc = "start"
    /\ result = "running"
    /\ send = NoPublish
    /\ chan = <<>>
    /\ senders_open = TRUE
    /\ produced = 0
    /\ ticks = 0
    /\ metrics = MetricsNew
    /\ calls = <<>>
    /\ logged = <<>>
    /\ drained = <<>>
    /\ spooled = spool
    /\ evictions = 0
    /\ ExtIdle

(* --------------------------- environment ------------------------------- *)
\* the n-th Package the producers send: n serialized bytes, so that no two
\* Packages of a run have the same size; every other one reports anomalies
PackageOf(n) ==
    [topic |-> DataTopic,
     payload |-> [len |-> n, content |-> <<n>>],
     anomalies |-> IF n % 2 = 1 THEN SomeAnomalies ELSE NoAnomalies]

\* a producer sends one Package on the collector channel
Produce ==
    /\ senders_open
    /\ produced < MaxPackages
    /\ chan' = Append(chan, PackageOf(produced + 1))
    /\ produced' = produced + 1
    /\ UNCHANGED <<storage, spool, status, status_publish, pc, result, send,
                   senders_open, ticks, metrics, calls, logged, drained,
                   spooled, evictions>>
    /\ UNCHANGED ext_vars

\* the last Sender of the collector channel is dropped
CloseSenders ==
    /\ senders_open
    /\ senders_open' = FALSE
    /\ UNCHANGED <<storage, spool, status, status_publish, pc, result, send,
                   chan, produced, ticks, metrics, calls, logged, drained,
                   spooled, evictions>>
    /\ UNCHANGED ext_vars

(* ------------------------------ helpers -------------------------------- *)
\* recv_async() yields a Package / fails with RecvError
RecvReady == chan # <<>>
RecvFailed == chan = <<>> /\ ~senders_open

\* one completed call of try_publish / publish / publish_bytes
Call(p, via, res) ==
    [topic |-> p.topic, payload |-> p.payload, via |-> via, result |-> res]

\* an error!() line written while the serializer is in mode `at`
LogLines(log, at) == [i \in 1..Len(log) |-> [msg |-> log[i], at |-> at]]

IsOk(c) == c.result = "Ok"
\* every Publish the MQTT client accepted, in order
Published == SelectSeq(calls, IsOk)

\* start() returns Err(e)
Exit(e) ==
    /\ pc' = "exited"
    /\ result' = e

\* the effects of one write_to_storage call on the serializer and the spool
Spill(w) ==
    /\ metrics' = w.metrics
    /\ spool' = w.spool
    /\ logged' = logged \o LogLines(w.log, pc)
    /\ spooled' = spooled \o w.written
    /\ evictions' = evictions + (IF w.deleted THEN 1 ELSE 0)

\* RecvAndSpill propagating a spool error as Error::Io
RecvAndSpill_Propagate(here) ==
    /\ RecvReady
    /\ chan' = Tail(chan)
    /\ \E wres \in IoResults, fres \in IoResults :
         LET w == write_to_storage(Head(chan), metrics, storage, spool,
                                   wres, fres)
         IN  /\ Spill(w)
             /\ IF w.ret = "Ok" /\ w.log = <<>>
                THEN pc' = here /\ result' = result
                ELSE Exit("Io")

\* data = recv_async().await?; write_to_storage(data, ..)? inside a loop
\* that stays in mode `here`
RecvAndSpill(here) ==
    /\ RecvReady
    /\ chan' = Tail(chan)
    /\ \E wres \in IoResults, fres \in IoResults :
         LET w == write_to_storage(Head(chan), metrics, storage, spool,
                                   wres, fres)
         IN  /\ Spill(w)
             /\ IF w.ret = "Ok"
                THEN pc' = here /\ result' = result
                ELSE Exit(w.ret)

(* ------------------------- Serializer::start --------------------------- *)
\* Start with the loop beginning in Normal instead of EventLoopReady
Start_InNormal ==
    /\ pc = "start"
    /\ IF ~storage
       THEN pc' = "direct" /\ status' = status
       ELSE pc' = "dispatch" /\ status' = "Normal"
    /\ UNCHANGED <<storage, spool, status_publish, result, send, chan,
                   senders_open, produced, ticks, metrics, calls, logged,
                   drained, spooled, evictions>>
    /\ UNCHANGED ext_vars

\* Start entering the state machine without looking at the storage
Start_NoDirect ==
    /\ pc = "start"
    /\ pc' = "dispatch" /\ status' = "EventLoopReady"
    /\ UNCHANGED <<storage, spool, status_publish, result, send, chan,
                   senders_open, produced, ticks, metrics, calls, logged,
                   drained, spooled, evictions>>
    /\ UNCHANGED ext_vars

Start ==
    /\ pc = "start"
    /\ IF ~storage
       THEN pc' = "direct" /\ status' = status
       ELSE pc' = "dispatch" /\ status' = "EventLoopReady"
    /\ UNCHANGED <<storage, spool, status_publish, result, send, chan,
                   senders_open, produced, ticks, metrics, calls, logged,
                   drained, spooled, evictions>>
    /\ UNCHANGED ext_vars

(* ------------------------- Serializer::crash --------------------------- *)
CrashEnter ==
    /\ pc = "dispatch" /\ status = "EventLoopCrash"
    /\ status_publish' = [status_publish EXCEPT !.pkid = 1]
    /\ pc' = "crash"
    /\ UNCHANGED <<storage, spool, status, result, send, chan, senders_open,
                   produced, ticks, metrics, calls, logged, drained,
                   spooled, evictions>>
    /\ UNCHANGED ext_vars

\* CrashRecv leaving crash mode for Normal when the spool write fails
CrashRecv_LeaveOnError ==
    /\ pc = "crash"
    /\ RecvReady
    /\ chan' = Tail(chan)
    /\ \E wres \in IoResults, fres \in IoResults :
         LET w == write_to_storage(Head(chan), metrics, storage, spool,
                                   wres, fres)
         IN  /\ Spill(w)
             /\ IF w.log = <<>>
                THEN pc' = "crash" /\ status' = status
                ELSE pc' = "dispatch" /\ status' = "Normal"
    /\ UNCHANGED <<storage, status_publish, result, send, senders_open,
                   produced, ticks, calls, drained>>
    /\ UNCHANGED ext_vars

CrashRecv ==
    /\ pc = "crash"
    /\ RecvAndSpill("crash")
    /\ UNCHANGED <<storage, status, status_publish, send, senders_open,
                   produced, ticks, calls, drained>>
    /\ UNCHANGED ext_vars

CrashRecvClosed ==
    /\ pc = "crash"
    /\ RecvFailed
    /\ Exit("Collector")
    /\ UNCHANGED <<storage, spool, status, status_publish, send, chan,
                   senders_open, produced, ticks, metrics, calls, logged,
                   drained, spooled, evictions>>
    /\ UNCHANGED ext_vars

(* -------------------------- Serializer::disk --------------------------- *)
DiskEnter ==
    /\ pc = "dispatch" /\ status = "SlowEventloop"
    /\ send' = send_publish(status_publish.topic, status_publish.payload)
    /\ pc' = "disk"
    /\ UNCHANGED <<storage, spool, status, status_publish, result, chan,
                   senders_open, produced, ticks, metrics, calls, logged,
                   drained, spooled, evictions>>
    /\ UNCHANGED ext_vars

\* DiskRecv handing the received Package to the client instead of the spool
DiskRecv_Publish ==
    /\ pc = "disk"
    /\ RecvReady
    /\ chan' = Tail(chan)
    /\ LET g == get_payload(Head(chan), metrics)
       IN  /\ metrics' = add_total_sent_size(g.metrics, g.payload_size)
           /\ calls' = Append(calls,
                      Call(send_publish(g.topic, g.payload), "try", "Ok"))
    /\ UNCHANGED <<storage, spool, status, status_publish, pc, result, send,
                   senders_open, produced, ticks, logged, drained, spooled,
                   evictions>>
    /\ UNCHANGED ext_vars

\* DiskRecv letting the received Package overtake the stalled publish: the
\* Package goes to the client and the stalled publish to the spool
DiskRecv_Overtake ==
    /\ pc = "disk"
    /\ RecvReady
    /\ chan' = Tail(chan)
    /\ LET g == get_payload(Head(chan), metrics)
           stalled == [topic |-> status_publish.topic,
                       payload |-> status_publish.payload, pkid |-> 1]
       IN  /\ metrics' = add_total_disk_size(g.metrics,
                                             status_publish.payload.len)
           /\ spool' = StorageWrite(spool, stalled, "Ok")
           /\ spooled' = Append(spooled, stalled)
           /\ status_publish' = send_publish(g.topic, g.payload)
           /\ send' = send_publish(g.topic, g.payload)
    /\ UNCHANGED <<storage, status, pc, result, senders_open, produced,
                   ticks, calls, logged, drained, evictions>>
    /\ UNCHANGED ext_vars

DiskRecv ==
    /\ pc = "disk"
    /\ RecvAndSpill("disk")
    /\ UNCHANGED <<storage, status, status_publish, send, senders_open,
                   produced, ticks, calls, drained>>
    /\ UNCHANGED ext_vars

\* DiskRecvClosed taking the closed channel for the end of disk mode
DiskRecvClosed_Return ==
    /\ pc = "disk"
    /\ RecvFailed
    /\ status' = "EventLoopReady"
    /\ pc' = "dispatch"
    /\ UNCHANGED <<storage, spool, status_publish, result, send, chan,
                   senders_open, produced, ticks, metrics, calls, logged,
                   drained, spooled, evictions>>
    /\ UNCHANGED ext_vars

DiskRecvClosed ==
    /\ pc = "disk"
    /\ RecvFailed
    /\ Exit("Collector")
    /\ UNCHANGED <<storage, spool, status, status_publish, send, chan,
                   senders_open, produced, ticks, metrics, calls, logged,
                   drained, spooled, evictions>>
    /\ UNCHANGED ext_vars

\* DiskPublishDone staying in disk mode while Packages are ready
DiskPublishDone_StayWhileData ==
    /\ pc = "disk"
    /\ \E o \in {"Ok", "Request", "Other"} :
         /\ calls' = Append(calls, Call(send, "disk", o))
         /\ IF o = "Ok"
            THEN IF RecvReady
                 THEN UNCHANGED <<status, status_publish, send, pc, result>>
                 ELSE /\ status' = "EventLoopReady"
                      /\ status_publish' = NoPublish
                      /\ send' = NoPublish
                      /\ pc' = "dispatch"
                      /\ result' = result
            ELSE /\ Exit("Client")
                 /\ UNCHANGED <<status, status_publish, send>>
    /\ UNCHANGED <<storage, spool, chan, senders_open, produced, ticks,
                   metrics, logged, drained, spooled, evictions>>
    /\ UNCHANGED ext_vars

\* DiskPublishDone returning Status::Normal, past the catchup of the spool
DiskPublishDone_ToNormal ==
    /\ pc = "disk"
    /\ \E o \in {"Ok", "Request", "Other"} :
         /\ calls' = Append(calls, Call(send, "disk", o))
         /\ IF o = "Ok"
            THEN /\ status' = "Normal"
                 /\ status_publish' = NoPublish
                 /\ send' = NoPublish
                 /\ pc' = "dispatch"
                 /\ result' = result
            ELSE /\ Exit("Client")
                 /\ UNCHANGED <<status, status_publish, send>>
    /\ UNCHANGED <<storage, spool, chan, senders_open, produced, ticks,
                   metrics, logged, drained, spooled, evictions>>
    /\ UNCHANGED ext_vars

\* o = &mut publish => { o?; return Ok(Status::EventLoopReady) }
DiskPublishDone ==
    /\ pc = "disk"
    /\ \E o \in {"Ok", "Request", "Other"} :
         /\ calls' = Append(calls, Call(send, "disk", o))
         /\ IF o = "Ok"
            THEN /\ status' = "EventLoopReady"
                 /\ status_publish' = NoPublish
                 /\ send' = NoPublish
                 /\ pc' = "dispatch"
                 /\ result' = result
            ELSE /\ Exit("Client")
                 /\ UNCHANGED <<status, status_publish, send>>
    /\ UNCHANGED <<storage, spool, chan, senders_open, produced, ticks,
                   metrics, logged, drained, spooled, evictions>>
    /\ UNCHANGED ext_vars

(* ------------------------- Serializer::catchup ------------------------- *)
\* the first read_from_storage, before the loop
CatchupEnter ==
    /\ pc = "dispatch" /\ status = "EventLoopReady"
    /\ \E eres \in IoResults, rres \in IoResults :
         LET r == read_from_storage(storage, spool, eres, rres)
         IN  /\ spool' = r.spool
             /\ logged' = logged \o LogLines(r.log, "catchup")
             /\ CASE r.ret = "Some" ->
                       /\ send' = send_publish(r.publish.topic,
                                               r.publish.payload)
                       /\ drained' = Append(drained, r.publish)
                       /\ pc' = "catchup"
                       /\ UNCHANGED <<status, result>>
                  [] r.ret = "None" ->
                       /\ status' = "Normal"
                       /\ pc' = "dispatch"
                       /\ UNCHANGED <<send, drained, result>>
                  [] OTHER ->
                       /\ Exit(r.ret)
                       /\ UNCHANGED <<status, send, drained>>
    /\ UNCHANGED <<storage, status_publish, chan, senders_open, produced,
                   ticks, metrics, calls, spooled, evictions>>
    /\ UNCHANGED ext_vars

CatchupRecv ==
    /\ pc = "catchup"
    /\ RecvAndSpill("catchup")
    /\ UNCHANGED <<storage, status, status_publish, send, senders_open,
                   produced, ticks, calls, drained>>
    /\ UNCHANGED ext_vars

CatchupRecvClosed ==
    /\ pc = "catchup"
    /\ RecvFailed
    /\ Exit("Collector")
    /\ UNCHANGED <<storage, spool, status, status_publish, send, chan,
                   senders_open, produced, ticks, metrics, calls, logged,
                   drained, spooled, evictions>>
    /\ UNCHANGED ext_vars

\* o = &mut send => Ok(client): load the next publish from storage
CatchupSendOk ==
    /\ pc = "catchup"
    /\ calls' = Append(calls, Call(send, "catchup", "Ok"))
    /\ \E eres \in IoResults, rres \in IoResults :
         LET r == read_from_storage(storage, spool, eres, rres)
         IN  /\ spool' = r.spool
             /\ logged' = logged \o LogLines(r.log, "catchup")
             /\ CASE r.ret = "Some" ->
                       LET payload == r.publish.payload
                           payload_size == payload.len
                       IN  /\ metrics' = add_total_sent_size(
                                 sub_total_disk_size(metrics, payload_size),
                                 payload_size)
                           /\ send' = send_publish(r.publish.topic, payload)
                           /\ drained' = Append(drained, r.publish)
                           /\ UNCHANGED <<status, pc, result>>
                  [] r.ret = "None" ->
                       /\ status' = "Normal"
                       /\ pc' = "dispatch"
                       /\ send' = NoPublish
                       /\ UNCHANGED <<metrics, drained, result>>
                  [] OTHER ->
                       /\ Exit(r.ret)
                       /\ UNCHANGED <<status, send, metrics, drained>>
    /\ UNCHANGED <<storage, status_publish, chan, senders_open, produced,
                   ticks, spooled, evictions>>
    /\ UNCHANGED ext_vars

\* CatchupSendErr entering crash mode on every client error
CatchupSendErr_AlwaysCrash ==
    /\ pc = "catchup"
    /\ \E o \in {"Request", "Other"} :
         /\ calls' = Append(calls, Call(send, "catchup", o))
         /\ status' = "EventLoopCrash"
         /\ status_publish' = send
         /\ send' = NoPublish
         /\ pc' = "dispatch"
         /\ result' = result
    /\ UNCHANGED <<storage, spool, chan, senders_open, produced, ticks,
                   metrics, logged, drained, spooled, evictions>>
    /\ UNCHANGED ext_vars

\* o = &mut send => Err(ClientError::Request(request)) / Err(e)
CatchupSendErr ==
    /\ pc = "catchup"
    /\ \E o \in {"Request", "Other"} :
         /\ calls' = Append(calls, Call(send, "catchup", o))
         /\ IF o = "Request"
            THEN /\ status' = "EventLoopCrash"
                 /\ status_publish' = send
                 /\ send' = NoPublish
                 /\ pc' = "dispatch"
                 /\ result' = result
            ELSE /\ Exit("Client")
                 /\ UNCHANGED <<status, status_publish, send>>
    /\ UNCHANGED <<storage, spool, chan, senders_open, produced, ticks,
                   metrics, logged, drained, spooled, evictions>>
    /\ UNCHANGED ext_vars

(* -------------------------- Serializer::normal ------------------------- *)
NormalEnter ==
    /\ pc = "dispatch" /\ status = "Normal"
    /\ pc' = "normal"
    /\ UNCHANGED <<storage, spool, status, status_publish, result, send,
                   chan, senders_open, produced, ticks, metrics, calls,
                   logged, drained, spooled, evictions>>
    /\ UNCHANGED ext_vars

\* NormalPublish counting the payload as sent before looking at the result
NormalPublish_CountFirst(topic, payload, payload_size, m, o) ==
    /\ calls' = Append(calls, Call(send_publish(topic, payload), "try", o))
    /\ metrics' = add_total_sent_size(m, payload_size)
    /\ CASE o = "Ok" ->
             UNCHANGED <<status, status_publish, pc, result>>
        [] o = "TryRequest" ->
             /\ status' = "SlowEventloop"
             /\ status_publish' = send_publish(topic, payload)
             /\ pc' = "dispatch"
             /\ result' = result
        [] OTHER ->
             /\ Exit("Client")
             /\ UNCHANGED <<status, status_publish>>

\* the match on publish_result, for the publish of topic and payload after
\* m became the metrics
NormalPublish(topic, payload, payload_size, m, o) ==
    /\ calls' = Append(calls, Call(send_publish(topic, payload), "try", o))
    /\ CASE o = "Ok" ->
             /\ metrics' = add_total_sent_size(m, payload_size)
             /\ UNCHANGED <<status, status_publish, pc, result>>
        [] o = "TryRequest" ->
             /\ metrics' = m
             /\ status' = "SlowEventloop"
             /\ status_publish' = send_publish(topic, payload)
             /\ pc' = "dispatch"
             /\ result' = result
        [] OTHER ->
             /\ metrics' = m
             /\ Exit("Client")
             /\ UNCHANGED <<status, status_publish>>

NormalRecv ==
    /\ pc = "normal"
    /\ RecvReady
    /\ chan' = Tail(chan)
    /\ \E o \in {"Ok", "TryRequest", "Other"} :
         LET g == get_payload(Head(chan), metrics)
         IN  NormalPublish(g.topic, g.payload, g.payload_size, g.metrics, o)
    /\ UNCHANGED <<storage, spool, send, senders_open, produced, ticks,
                   logged, drained, spooled, evictions>>
    /\ UNCHANGED ext_vars

NormalRecvClosed ==
    /\ pc = "normal"
    /\ RecvFailed
    /\ Exit("Collector")
    /\ UNCHANGED <<storage, spool, status, status_publish, send, chan,
                   senders_open, produced, ticks, metrics, calls, logged,
                   drained, spooled, evictions>>
    /\ UNCHANGED ext_vars

NormalTick ==
    /\ pc = "normal"
    /\ ticks < MaxTicks
    /\ ticks' = ticks + 1
    /\ \E o \in {"Ok", "TryRequest", "Other"} :
         LET n == MetricsNext(metrics)
         IN  NormalPublish(n.topic, n.payload, n.payload.len, n.metrics, o)
    /\ UNCHANGED <<storage, spool, send, chan, senders_open, produced,
                   logged, drained, spooled, evictions>>
    /\ UNCHANGED ext_vars

(* -------------------------- Serializer::direct ------------------------- *)
DirectRecv ==
    /\ pc = "direct"
    /\ RecvReady
    /\ chan' = Tail(chan)
    /\ LET g == get_payload(Head(chan), metrics)
       IN  /\ metrics' = g.metrics
           /\ send' = send_publish(g.topic, g.payload)
    /\ pc' = "direct_publish"
    /\ UNCHANGED <<storage, spool, status, status_publish, result,
                   senders_open, produced, ticks, calls, logged, drained,
                   spooled, evictions>>
    /\ UNCHANGED ext_vars

DirectRecvClosed ==
    /\ pc = "direct"
    /\ RecvFailed
    /\ Exit("Collector")
    /\ UNCHANGED <<storage, spool, status, status_publish, send, chan,
                   senders_open, produced, ticks, metrics, calls, logged,
                   drained, spooled, evictions>>
    /\ UNCHANGED ext_vars

DirectTick ==
    /\ pc = "direct"
    /\ ticks < MaxTicks
    /\ ticks' = ticks + 1
    /\ LET n == MetricsNext(metrics)
       IN  /\ metrics' = n.metrics
           /\ send' = send_publish(n.topic, n.payload)
    /\ pc' = "direct_publish"
    /\ UNCHANGED <<storage, spool, status, status_publish, result, chan,
                   senders_open, produced, calls, logged, drained,
                   spooled, evictions>>
    /\ UNCHANGED ext_vars

\* self.client.publish(..).await? ; self.metrics.add_total_sent_size(..)
DirectPublishDone ==
    /\ pc = "direct_publish"
    /\ \E o \in {"Ok", "Request", "Other"} :
         /\ calls' = Append(calls, Call(send, "direct", o))
         /\ IF o = "Ok"
            THEN /\ metrics' = add_total_sent_size(metrics, send.payload.len)
                 /\ pc' = "direct"
                 /\ result' = result
            ELSE /\ Exit("Client")
                 /\ metrics' = metrics
    /\ send' = NoPublish
    /\ UNCHANGED <<storage, spool, status, status_publish, chan,
                   senders_open, produced, ticks, logged, drained, spooled,
                   evictions>>
    /\ UNCHANGED ext_vars

(* ------------------------------- Next ---------------------------------- *)
Next ==
    \/ Produce
    \/ CloseSenders
    \/ Start
    \/ CrashEnter
    \/ CrashRecv
    \/ CrashRecvClosed
    \/ DiskEnter
    \/ DiskRecv
    \/ DiskRecvClosed
    \/ DiskPublishDone
    \/ CatchupEnter
    \/ CatchupRecv
    \/ CatchupRecvClosed
    \/ CatchupSendOk
    \/ CatchupSendErr
    \/ NormalEnter
    \/ NormalRecv
    \/ NormalRecvClosed
    \/ NormalTick
    \/ DirectRecv
    \/ DirectRecvClosed
    \/ DirectTick
    \/ DirectPublishDone

Spec == Init /\ [][Next]_vars

TypeOK ==
    /\ storage \in BOOLEAN
    /\ status \in {"None", "EventLoopReady", "Normal", "SlowEventloop",
                   "EventLoopCrash"}
    /\ pc \in {"start", "dispatch", "direct", "direct_publish", "normal",
               "disk", "catchup", "crash", "exited"}
    /\ result \in {"running", "Collector", "Client", "MissingPersistence"}
    /\ (pc = "exited") <=> (result # "running")

(* ======================================================================= *)
(*                               Properties                                *)
(* ======================================================================= *)
SentSize == metrics.total_sent_size
DiskSize == metrics.total_disk_size

\* a step in which one client call completed, and that call
ClientCalled == Len(calls') = Len(calls) + 1
TheCall == Last(calls')
\* a step in which the serializer took a Package from the collector channel
Received == Len(chan') < Len(chan)
\* the Publish made of the Package at the head of the channel
HeadPublish(pkid) ==
    [topic |-> Head(chan).topic, payload |-> Head(chan).payload, pkid |-> pkid]
SamePublish(p, q) == p.topic = q.topic /\ p.payload = q.payload

(* ------------------------------- C1 ------------------------------------ *)
AllowedTransitions ==
    {<<"None", "EventLoopReady">>,
     <<"EventLoopReady", "Normal">>,
     <<"EventLoopReady", "EventLoopCrash">>,
     <<"Normal", "SlowEventloop">>,
     <<"SlowEventloop", "EventLoopReady">>}

\* C1: with a spool configured, start begins in EventLoopReady and every
\* pair of consecutive statuses (every return of a mode function to the
\* loop of start, and every change of the status) is one of
\* EventLoopReady->Normal, EventLoopReady->EventLoopCrash,
\* Normal->SlowEventloop, SlowEventloop->EventLoopReady.
C1_StatusTransitions ==
    [][(status' # status \/ (pc' = "dispatch" /\ pc # "dispatch"))
         => (storage /\ <<status, status'>> \in AllowedTransitions)]_vars

\* disk mode has returned to EventLoopReady: the run went through
\* EventLoopReady -> Normal -> SlowEventloop -> EventLoopReady
C1_Witness ==
    /\ status = "EventLoopReady" /\ pc = "dispatch"
    /\ calls # <<>> /\ Last(calls).via = "disk" /\ Last(calls).result = "Ok"

(* ------------------------------- C2 ------------------------------------ *)
\* the publish attempted by a step of normal(): the received Package, or
\* the Metrics payload on a tick
NormalAttempt ==
    IF Received
    THEN [topic |-> Head(chan).topic, payload |-> Head(chan).payload]
    ELSE [topic |-> MetricsTopic, payload |-> MetricsNext(metrics).payload]

\* C2: in Normal mode every step (a received Package or a metrics tick) is
\* one try_publish of that payload; on success total_sent_size grows by the
\* payload's size and the mode stays Normal; on TryRequest the status
\* becomes SlowEventloop carrying that topic and payload and total_sent_size
\* is unchanged; on any other client error the serializer terminates.
C2_NormalPublish ==
    [][(pc = "normal" /\ (Received \/ ticks' # ticks)) =>
         /\ ClientCalled
         /\ TheCall.via = "try"
         /\ SamePublish(TheCall, NormalAttempt)
         /\ CASE TheCall.result = "Ok" ->
                   /\ SentSize' = SentSize + NormalAttempt.payload.len
                   /\ status' = "Normal" /\ pc' = "normal"
                   /\ result' = "running"
              [] TheCall.result = "TryRequest" ->
                   /\ status' = "SlowEventloop"
                   /\ SamePublish(status_publish', NormalAttempt)
                   /\ SentSize' = SentSize
                   /\ result' = "running"
              [] OTHER ->
                   /\ pc' = "exited" /\ result' = "Client"
                   /\ status' = "Normal"]_vars

\* a data Package was published in Normal mode and the Metrics payload then
\* hit a full client queue
C2_Witness ==
    /\ status = "SlowEventloop"
    /\ status_publish.topic = MetricsTopic
    /\ \E i \in 1..Len(calls) :
         calls[i].via = "try" /\ calls[i].result = "Ok"
         /\ calls[i].topic = DataTopic
    /\ SentSize > 0

(* ------------------------------- C3 ------------------------------------ *)
FillFailed == "Failed to fill disk buffer"
FlushFailed == "Failed to flush write buffer"
ReloadFailed == "Failed to reload storage"
ReadFailed == "Failed to read from storage"

\* a step that logged one error!() line
LoggedLine == Len(logged') = Len(logged) + 1
\* the received Package became the newest record of the spool
Appended ==
    /\ spool' # <<>>
    /\ Last(spool') = HeadPublish(1)
    /\ spooled' = Append(spooled, HeadPublish(1))
\* the write of the received Package failed: it is logged, and dropped
WriteFailed ==
    /\ spool' = spool
    /\ spooled' = spooled
    /\ LoggedLine
    /\ Last(logged').msg = FillFailed

DiskCompletes ==
    (pc = "disk" /\ ClientCalled /\ TheCall.result = "Ok")
        => (SamePublish(TheCall, status_publish) /\ TheCall.via = "disk"
            /\ status' = "EventLoopReady" /\ pc' = "dispatch")

\* C3 as stated: in disk mode every Package received while the stalled
\* publish is in flight is appended to the spool and none is published;
\* the successful completion of the stalled publish moves the serializer
\* to EventLoopReady.
C3_Original ==
    [][/\ (pc = "disk" /\ Received) => (calls' = calls /\ Appended)
       /\ DiskCompletes]_vars

\* C3 (amended): in disk mode every Package received while the stalled
\* publish is in flight goes to write_to_storage and none is published: it
\* is appended to the spool unless the spool write fails, in which case the
\* failure is logged and the Package is dropped while disk mode goes on;
\* the successful completion of the stalled publish moves the serializer
\* to EventLoopReady.
C3_DiskSpills ==
    [][/\ (pc = "disk" /\ Received)
            => (/\ calls' = calls
                /\ pc' = "disk" /\ status' = "SlowEventloop"
                /\ (Appended \/ WriteFailed))
       /\ DiskCompletes]_vars

\* still in the first disk mode of the run, with one received Package in
\* the spool and another one dropped by a failed write
C3_Witness ==
    /\ pc = "disk"
    /\ Len(calls) = 1 /\ calls[1].result = "TryRequest"
    /\ spool # <<>> /\ Last(spool).payload.content[1] > 0
    /\ logged # <<>> /\ Last(logged) = [msg |-> FillFailed, at |-> "disk"]

(* ------------------------------- C4 ------------------------------------ *)
TopicPayload(seq) ==
    [i \in 1..Len(seq) |-> [topic |-> seq[i].topic, payload |-> seq[i].payload]]

IsCatchupOk(c) == c.via = "catchup" /\ c.result = "Ok"
\* the publishes of catchup the client accepted, in order
CatchupPublished == TopicPayload(SelectSeq(calls, IsCatchupOk))

\* catchup is not running and neither failed nor was cut short
CatchupComplete ==
    \/ status \in {"Normal", "SlowEventloop"}
    \/ status \in {"None", "EventLoopReady"} /\ pc \in {"start", "dispatch"}

C4_State ==
    \* what is read back is what was stored, oldest first
    /\ evictions = 0 => drained \o spool = spooled
    \* the records read are published in the order read, one in flight
    /\ Len(CatchupPublished) <= Len(drained)
    /\ Len(drained) <= Len(CatchupPublished) + 1
    /\ CatchupPublished
         = SubSeq(TopicPayload(drained), 1, Len(CatchupPublished))
    /\ pc = "catchup"
         => (/\ Len(drained) = Len(CatchupPublished) + 1
             /\ SamePublish(send, Last(drained)))
    \* each of them exactly once when catchup ran to its end
    /\ CatchupComplete => CatchupPublished = TopicPayload(drained)

C4_Step ==
    \* to Normal only when the spool reports that no data remains
    /\ (status = "EventLoopReady" /\ status' = "Normal" /\ logged' = logged)
         => (spool' = <<>> /\ (evictions = 0 => drained' = spooled'))
    \* an empty spool on entry: Normal, and nothing is published
    /\ (pc = "dispatch" /\ status = "EventLoopReady" /\ spool = <<>>
          /\ chan' = chan /\ senders_open' = senders_open)
         => (status' = "Normal" /\ pc' = "dispatch" /\ calls' = calls
             /\ drained' = drained)

\* C4: in catchup the records of the spool are handed to the client one at
\* a time, in spool (FIFO) order, each exactly once when the client accepts
\* every publish; without a spool error catchup returns Normal only when
\* the spool has no data left, and with an empty spool on entry it returns
\* Normal without publishing.
C4_CatchupDrains == [](C4_State) /\ [][C4_Step]_vars

\* catchup has drained two records in order and returned Normal
C4_Witness ==
    /\ status = "Normal"
    /\ logged = <<>> /\ evictions = 0
    /\ Len(drained) >= 2 /\ spool = <<>> /\ drained = spooled
    /\ CatchupPublished = TopicPayload(drained)
    /\ \A i \in 1..Len(calls) : calls[i].result = "Ok"

(* ------------------------------- C5 ------------------------------------ *)
InCatchup == pc = "catchup" \/ (pc = "dispatch" /\ status = "EventLoopReady")

\* C5 as stated: in catchup, when and only when the blocking publish of a
\* spool record completed successfully, total_disk_size is decreased and
\* total_sent_size is increased by the payload size of that record.
C5_MetricsOnCompletion ==
    [][/\ (pc = "catchup" /\ ClientCalled /\ TheCall.result = "Ok")
            => (/\ DiskSize' = saturating_sub(DiskSize, send.payload.len)
                /\ SentSize' = saturating_add(SentSize, send.payload.len))
       /\ (InCatchup /\ (SentSize' # SentSize \/ DiskSize' < DiskSize))
            => (ClientCalled /\ TheCall.result = "Ok")]_vars

(* ------------------------------- C6 ------------------------------------ *)
\* C6: in catchup a publish that fails with a request error handing back the
\* Publish moves the serializer to EventLoopCrash carrying that Publish; any
\* other client error terminates the serializer.
C6_CatchupFailure ==
    [][(pc = "catchup" /\ ClientCalled /\ TheCall.result # "Ok") =>
         /\ SamePublish(TheCall, send)
         /\ IF TheCall.result = "Request"
            THEN /\ status' = "EventLoopCrash"
                 /\ SamePublish(status_publish', send)
                 /\ pc' = "dispatch" /\ result' = "running"
            ELSE /\ pc' = "exited" /\ result' = "Client"
                 /\ status' = status]_vars

\* catchup has returned EventLoopCrash with the record it was publishing
C6_Witness ==
    /\ status = "EventLoopCrash" /\ pc = "dispatch"
    /\ drained # <<>> /\ SamePublish(status_publish, Last(drained))
    /\ calls # <<>> /\ Last(calls).result = "Request"

(* ------------------------------- C7 ------------------------------------ *)
\* C7: once in EventLoopCrash the serializer takes no other status; every
\* Package received is written to the spool by write_to_storage and nothing
\* is published; a spool write error is logged and crash mode goes on (only
\* the closed collector channel ends it).
C7_CrashForever ==
    [][status = "EventLoopCrash" =>
         /\ status' = "EventLoopCrash"
         /\ calls' = calls
         /\ pc' \in {"dispatch", "crash", "exited"}
         /\ pc' = "exited" => (RecvFailed /\ result' = "Collector")
         /\ Received => (/\ pc = "crash" /\ pc' = "crash"
                         /\ result' = "running"
                         /\ (Appended \/ WriteFailed))]_vars

\* crash mode goes on after a Package was spilled and a write error logged
C7_Witness ==
    /\ status = "EventLoopCrash" /\ pc = "crash"
    /\ logged # <<>> /\ Last(logged) = [msg |-> FillFailed, at |-> "crash"]
    /\ spool # <<>>

(* ------------------------------- C8 ------------------------------------ *)
\* C8 as stated: any spool I/O error, on a read or on a write, is logged,
\* is not propagated, and results in the transition to Normal.
C8_Original ==
    [][LoggedLine => (result' = "running" /\ status' = "Normal")]_vars

\* C8 (amended): any spool I/O error is logged and never propagated as a
\* serializer error; an error on a read (reload_on_eof, read; catchup only)
\* makes catchup return Normal, an error on a write (writer write,
\* flush_on_overflow) in disk, catchup or crash mode leaves the serializer
\* in the mode and status it is in.
C8_SpoolErrors ==
    [][/\ logged' # logged => (LoggedLine /\ logged = Front(logged'))
       /\ LoggedLine =>
            /\ result' = "running" /\ pc' # "exited"
            /\ IF Last(logged').msg \in {ReloadFailed, ReadFailed}
               THEN /\ InCatchup
                    /\ status' = "Normal" /\ pc' = "dispatch"
               ELSE /\ pc \in {"disk", "catchup", "crash"}
                    /\ Last(logged').msg \in {FillFailed, FlushFailed}
                    /\ Last(logged').at = pc
                    /\ pc' = pc /\ status' = status]_vars

\* catchup goes on after flush_on_overflow failed
C8_Witness ==
    /\ pc = "catchup" /\ status = "EventLoopReady"
    /\ logged # <<>> /\ Last(logged) = [msg |-> FlushFailed, at |-> "catchup"]

(* ------------------------------- C9 ------------------------------------ *)
IsDirect(c) == c.via = "direct"

C9_State ==
    ~storage =>
      /\ status = "None"
      /\ pc \in {"start", "direct", "direct_publish", "exited"}
      /\ result # "MissingPersistence"
      /\ spool = <<>> /\ spooled = <<>> /\ drained = <<>> /\ logged = <<>>
      /\ \A i \in 1..Len(calls) : IsDirect(calls[i])
      \* every Package received and every tick is one publish: completed,
      \* or the one being awaited
      /\ (produced - Len(chan)) + ticks
           = Len(calls) + (IF pc = "direct_publish" THEN 1 ELSE 0)

C9_Step ==
    ~storage =>
      /\ Received => (pc' = "direct_publish" /\ SamePublish(send', HeadPublish(0)))
      /\ ticks' # ticks
           => (/\ pc' = "direct_publish"
               /\ send'.topic = MetricsTopic
               /\ send'.payload = MetricsNext(metrics).payload)
      /\ SentSize' # SentSize => (ClientCalled /\ TheCall.result = "Ok")
      /\ ClientCalled =>
           /\ pc = "direct_publish" /\ SamePublish(TheCall, send)
           /\ IF TheCall.result = "Ok"
              THEN /\ SentSize' = SentSize + send.payload.len
                   /\ pc' = "direct" /\ result' = "running"
              ELSE /\ SentSize' = SentSize
                   /\ pc' = "exited" /\ result' = "Client"

\* C9: without a spool, start runs only direct mode: no status is taken, the
\* spool is never read or written and MissingPersistence never returned,
\* every received Package and every Metrics payload is published with a
\* blocking publish, total_sent_size grows (by the payload size) only when
\* that publish has succeeded, and the first failed publish terminates the
\* serializer.
C9_DirectMode == [](C9_State) /\ [][C9_Step]_vars

\* direct mode published a payload and was then ended by a failed publish
C9_Witness ==
    /\ ~storage
    /\ pc = "exited" /\ result = "Client"
    /\ Len(calls) >= 2 /\ calls[1].result = "Ok"
    /\ SentSize = calls[1].payload.len

(* ------------------------------- C10 ----------------------------------- *)
Modes == {"direct", "normal", "disk", "catchup", "crash"}

\* the other branch of the mode's select! ran instead of the receive
OtherBranch ==
    \/ pc \in {"direct", "normal"} /\ ticks' = ticks + 1
    \/ pc \in {"disk", "catchup"} /\ ClientCalled

\* C10: in every mode, a receive on the collector channel that fails because
\* no sender is left makes start return the Collector error, and the
\* serializer publishes nothing and writes nothing to the spool from then on.
C10_CollectorClosed ==
    [][/\ (pc \in Modes /\ RecvFailed)
            => \/ /\ result' = "Collector" /\ pc' = "exited"
                  /\ calls' = calls /\ spool' = spool /\ spooled' = spooled
               \/ OtherBranch
       /\ (result' = "Collector" /\ result # "Collector")
            => (pc \in Modes /\ RecvFailed)
       /\ pc = "exited"
            => (/\ pc' = "exited" /\ result' = result
                /\ calls' = calls /\ spool' = spool /\ spooled' = spooled
                /\ metrics' = metrics)]_vars

\* disk mode was ended by the closed channel while the stalled publish was
\* still in flight
C10_Witness ==
    /\ pc = "exited" /\ result = "Collector"
    /\ status = "SlowEventloop" /\ send # NoPublish
    /\ spool # <<>>

(* ------------------------------- C11 ----------------------------------- *)
\* try_publish accepted the Publish made of the received Package
HandedOver ==
    /\ ClientCalled
    /\ TheCall.via = "try"
    /\ TheCall.result = "Ok"
    /\ SamePublish(TheCall, HeadPublish(0))
\* the Publish made of the received Package became the stalled packet
Stalled ==
    /\ status' = "SlowEventloop"
    /\ SamePublish(status_publish', HeadPublish(0))
\* the stalled packet is still waiting for its blocking publish
StillStalled ==
    /\ status' = "SlowEventloop"
    /\ status_publish' = status_publish
\* the blocking publish of disk mode delivered the stalled packet
StalledDelivered ==
    /\ ClientCalled
    /\ TheCall.via = "disk"
    /\ TheCall.result = "Ok"
    /\ SamePublish(TheCall, status_publish)
Terminated == pc' = "exited"

C11_Step ==
    storage =>
      /\ Received =>
            HandedOver \/ Stalled \/ Appended \/ WriteFailed \/ Terminated
      /\ status = "SlowEventloop" =>
            StillStalled \/ StalledDelivered \/ Terminated

\* C11: with a spool configured, every Package the serializer takes from the
\* collector channel is accepted by try_publish, or becomes the stalled
\* packet that the blocking publish of disk mode delivers, or is appended to
\* the spool, in every status, unless the serializer terminates or the spool
\* write fails.
C11_NoDataLoss == [][C11_Step]_vars

\* reached: a running serializer with a spool has delivered one received
\* Package by the blocking publish of disk mode and appended another
C11_Witness ==
    /\ storage
    /\ result = "running"
    /\ \E i \in 1..Len(calls) :
         /\ calls[i].via = "disk"
         /\ calls[i].result = "Ok"
         /\ calls[i].topic = DataTopic
    /\ \E i \in 1..Len(spooled) : spooled[i].payload.content[1] > 0

(* ======================================================================= *)
(*                       Metrics as a value of its own                     *)
(* ======================================================================= *)
\* The methods of Metrics applied in any order with any arguments, as
\* get_payload, write_to_storage, the mode loops and the metrics tick apply
\* them. The serializer does not run.
SerIdle ==
    /\ storage = FALSE
    /\ spool = <<>>
    /\ status = "None"
    /\ status_publish = NoPublish
    /\ pc = "start"
    /\ result = "running"
    /\ send = NoPublish
    /\ chan = <<>>
    /\ senders_open = TRUE
    /\ produced = 0
    /\ ticks = 0
    /\ calls = <<>>
    /\ logged = <<>>
    /\ drained = <<>>
    /\ spooled = <<>>
    /\ evictions = 0

ser_rest == <<storage, spool, status, status_publish, pc, result, send, chan,
              senders_open, produced, ticks, calls, logged, drained,
              spooled, evictions>>

\* sizes passed to the accumulators: small ones, and ones that reach the
\* clamp in one or two calls
Sizes == {1, 2, UsizeMax \div 2 + 1, UsizeMax}
\* lengths of the error descriptions passed to add_errors
ErrorLens == {1, 1021, 2000}

\* number of calls made so far
CallCount == IF last = NoCall THEN 0 ELSE last.n

\* the record of one call: the method, its argument, what it returned
MetricsCall(op, arg, ret) ==
    [op |-> op, arg |-> arg, ret |-> ret, n |-> CallCount + 1]

\* what a call on the Metrics value leaves alone
metrics_frame ==
    <<ser_rest, flush_handler, now, streams, data_tx, removed, bridge>>

MetricsInit ==
    /\ SerIdle
    /\ metrics = MetricsNew
    /\ ExtIdle

AddTotalSentSize ==
    /\ CallCount < MaxCalls
    /\ \E size \in Sizes :
         /\ metrics' = add_total_sent_size(metrics, size)
         /\ last' = MetricsCall("add_total_sent_size", size, NoPayload)
    /\ UNCHANGED metrics_frame

AddTotalDiskSize ==
    /\ CallCount < MaxCalls
    /\ \E size \in Sizes :
         /\ metrics' = add_total_disk_size(metrics, size)
         /\ last' = MetricsCall("add_total_disk_size", size, NoPayload)
    /\ UNCHANGED metrics_frame

SubTotalDiskSize ==
    /\ CallCount < MaxCalls
    /\ \E size \in Sizes :
         /\ metrics' = sub_total_disk_size(metrics, size)
         /\ last' = MetricsCall("sub_total_disk_size", size, NoPayload)
    /\ UNCHANGED metrics_frame

IncrementLostSegments ==
    /\ CallCount < MaxCalls
    /\ metrics' = increment_lost_segments(metrics)
    /\ last' = MetricsCall("increment_lost_segments", 0, NoPayload)
    /\ UNCHANGED metrics_frame

AddErrors ==
    /\ CallCount < MaxCalls
    /\ \E error \in ErrorLens :
         /\ metrics' = add_errors(metrics, error, 1)
         /\ last' = MetricsCall("add_errors", error, NoPayload)
    /\ UNCHANGED metrics_frame

Emit ==
    /\ CallCount < MaxCalls
    /\ metrics' = MetricsNext(metrics).metrics
    /\ last' = MetricsCall("next", 0, MetricsNext(metrics).payload)
    /\ UNCHANGED metrics_frame

MetricsNextStep ==
    \/ AddTotalSentSize
    \/ AddTotalDiskSize
    \/ SubTotalDiskSize
    \/ IncrementLostSegments
    \/ AddErrors
    \/ Emit

MetricsSpec == MetricsInit /\ [][MetricsNextStep]_vars

(* ------------------------------- C12 ----------------------------------- *)
\* a step that is one call of the method op
Called(op) == last' # last /\ last'.op = op

C12_Step ==
    Called("next") =>
      LET content == last'.ret.content
      IN  /\ metrics'.sequence = metrics.sequence + 1
          /\ content[1] = metrics.sequence + 1
          /\ content[4] = metrics.lost_segments
          /\ SubSeq(content, 6, Len(content)) = metrics.errors
          /\ metrics'.errors = <<>>
          /\ metrics'.lost_segments = 0
          /\ metrics'.total_sent_size = metrics.total_sent_size
          /\ metrics'.total_disk_size = metrics.total_disk_size
          /\ metrics'.error_count = metrics.error_count

\* C12: every Metrics::next increases sequence by exactly 1, returns a
\* payload carrying the errors and lost_segments accumulated since the
\* previous emission, and leaves errors empty and lost_segments 0, with
\* total_sent_size, total_disk_size and error_count as they were.
C12_Emission == [][C12_Step]_vars

\* reached: an emission that carried errors and lost segments, made after an
\* earlier emission, with sizes and an error count to preserve
C12_Witness ==
    /\ last # NoCall
    /\ last.op = "next"
    /\ last.ret.content[1] > 1
    /\ last.ret.content[4] > 0
    /\ Len(last.ret.content) > 5
    /\ metrics.error_count > 0
    /\ metrics.errors = <<>>
    /\ metrics.lost_segments = 0

(* ------------------------------- C13 ----------------------------------- *)
C13_Range ==
    /\ metrics.total_sent_size >= 0
    /\ metrics.total_sent_size <= UsizeMax
    /\ metrics.total_disk_size >= 0
    /\ metrics.total_disk_size <= UsizeMax

C13_Step ==
    /\ metrics'.total_sent_size >= metrics.total_sent_size
    /\ Called("add_total_disk_size") =>
         metrics'.total_disk_size =
           IF last'.arg > UsizeMax - metrics.total_disk_size
           THEN UsizeMax
           ELSE metrics.total_disk_size + last'.arg
    /\ Called("sub_total_disk_size") =>
         metrics'.total_disk_size =
           IF last'.arg > metrics.total_disk_size
           THEN 0
           ELSE metrics.total_disk_size - last'.arg

\* C13: over every sequence of add_total_sent_size, add_total_disk_size and
\* sub_total_disk_size calls with arbitrary sizes, total_sent_size never
\* decreases and total_disk_size stays between 0 and the maximum of its
\* width: an addition clamps at the maximum, a subtraction clamps at 0.
C13_Saturating == [](C13_Range) /\ [][C13_Step]_vars

\* reached: total_sent_size stands at the clamp after an addition that would
\* have passed it, and total_disk_size at 0 after a subtraction larger than
\* what it held
C13_Witness ==
    /\ last # NoCall
    /\ last.op = "sub_total_disk_size"
    /\ last.arg = 2
    /\ metrics.total_disk_size = 0
    /\ metrics.total_sent_size = UsizeMax
    /\ last.n = 4

(* ------------------------------- C14 ----------------------------------- *)
\* C14: after any sequence of add_errors calls and emissions the errors
\* string is never longer than 1024 characters.
C14_ErrorsBounded == SumLen(metrics.errors) <= 1024

(* ======================================================================= *)
(*                               DelayMap                                  *)
(* ======================================================================= *)
\* tokio_util's DelayQueue, as DelayMap uses it: a set of entries, each
\* with the Key insert() returned for it, its item and its deadline.
QueueKeys(q) == {e.key : e \in q}

\* the slab hands out the lowest free slot
FreshKey(q) ==
    CHOOSE k \in 1..(Cardinality(q) + 1) :
      /\ k \notin QueueKeys(q)
      /\ \A j \in 1..(k - 1) : j \in QueueKeys(q)

\* queue.insert(item, period): the queue afterwards and the new Key
QueueInsert(q, item, period, t) ==
    [queue |-> q \cup {[key |-> FreshKey(q), item |-> item,
                        deadline |-> t + period]},
     key |-> FreshKey(q)]

\* queue.remove(&key)
QueueRemove(q, key) == {e \in q : e.key # key}

\* queue.reset(&key, period)
QueueReset(q, key, period, t) ==
    {IF e.key = key THEN [e EXCEPT !.deadline = t + period] ELSE e : e \in q}

\* what queue.next().await can yield at time t: an expired entry none of
\* the others expired before
QueueExpired(q, t) ==
    {e \in q : e.deadline <= t /\ \A f \in q : f.deadline >= e.deadline}

\* HashMap::remove / HashMap::insert on the key map
MapRemove(m, item) == [x \in DOMAIN m \ {item} |-> m[x]]
MapInsert(m, item, key) ==
    [x \in DOMAIN m \cup {item} |-> IF x = item THEN key ELSE m[x]]

dm_remove(dm, item) ==
    IF item \in DOMAIN dm.map
    THEN [queue |-> QueueRemove(dm.queue, dm.map[item]),
          map |-> MapRemove(dm.map, item)]
    ELSE dm

dm_reset(dm, item, period, t) ==
    IF item \in DOMAIN dm.map
    THEN [queue |-> QueueReset(dm.queue, dm.map[item], period, t),
          map |-> MapRemove(dm.map, item)]
    ELSE dm

dm_insert(dm, item, period, t) ==
    LET i == QueueInsert(dm.queue, item, period, t)
    IN  [queue |-> i.queue, map |-> MapInsert(dm.map, item, i.key)]

\* update with the Occupied, !remove arm taking the key out of the map
dm_update_TakeKey(dm, item, period, remove, t) ==
    IF item \notin DOMAIN dm.map
    THEN IF remove
         THEN [dm |-> dm, ret |-> FALSE]
         ELSE [dm |-> dm_insert(dm, item, period, t), ret |-> TRUE]
    ELSE IF remove
         THEN [dm |-> dm_remove(dm, item), ret |-> TRUE]
         ELSE [dm |-> dm_reset(dm, item, period, t), ret |-> TRUE]

\* DelayMap::update: the map afterwards and the bool returned
dm_update(dm, item, period, remove, t) ==
    IF item \notin DOMAIN dm.map
    THEN IF remove
         THEN [dm |-> dm, ret |-> FALSE]
         ELSE LET i == QueueInsert(dm.queue, item, period, t)
              IN  [dm |-> [queue |-> i.queue,
                           map |-> MapInsert(dm.map, item, i.key)],
                   ret |-> TRUE]
    ELSE IF remove
         THEN [dm |-> [queue |-> QueueRemove(dm.queue, dm.map[item]),
                       map |-> MapRemove(dm.map, item)],
               ret |-> TRUE]
         ELSE [dm |-> [queue |-> QueueReset(dm.queue, dm.map[item], period, t),
                       map |-> dm.map],
               ret |-> TRUE]

\* DelayMap::next leaving the key of the yielded entry in the key map
dm_next_KeepKey(dm, e) ==
    [queue |-> dm.queue \ {e}, map |-> dm.map]

\* DelayMap::next when queue.next() yielded the entry e
dm_next(dm, e) ==
    [queue |-> dm.queue \ {e}, map |-> MapRemove(dm.map, e.item)]

dm_is_empty(dm) == dm.queue = {}

(* --------------------- DelayMap under any sequence of calls ------------ *)
DelayKeys == {"a", "b"}
Periods == 1..MaxPeriod

\* the key has no deadline: the precondition of insert
KeyAbsent(dm, item) ==
    /\ item \notin DOMAIN dm.map
    /\ \A e \in dm.queue : e.item # item

DelayCall(op, item, period, remove, ret) ==
    [op |-> op, item |-> item, period |-> period, remove |-> remove,
     ret |-> ret, n |-> CallCount + 1]

\* what a call on the DelayMap leaves alone
delay_frame == <<ser_vars, streams, data_tx, bridge>>

DelayInit ==
    /\ SerIdle
    /\ metrics = MetricsNew
    /\ ExtIdle

DelayInsert ==
    /\ CallCount < MaxCalls
    /\ \E item \in DelayKeys, period \in Periods :
         /\ KeyAbsent(flush_handler, item)
         /\ flush_handler' = dm_insert(flush_handler, item, period, now)
         /\ removed' = removed \ {item}
         /\ last' = DelayCall("insert", item, period, FALSE, TRUE)
    /\ UNCHANGED <<now, delay_frame>>

DelayReset ==
    /\ CallCount < MaxCalls
    /\ \E item \in DelayKeys, period \in Periods :
         /\ flush_handler' = dm_reset(flush_handler, item, period, now)
         /\ last' = DelayCall("reset", item, period, FALSE, TRUE)
    /\ UNCHANGED <<now, removed, delay_frame>>

DelayRemove ==
    /\ CallCount < MaxCalls
    /\ \E item \in DelayKeys :
         /\ flush_handler' = dm_remove(flush_handler, item)
         /\ removed' = removed \cup {item}
         /\ last' = DelayCall("remove", item, 0, TRUE, TRUE)
    /\ UNCHANGED <<now, delay_frame>>

DelayUpdate ==
    /\ CallCount < MaxCalls
    /\ \E item \in DelayKeys, period \in Periods, remove \in BOOLEAN :
         LET u == dm_update(flush_handler, item, period, remove, now)
         IN  /\ flush_handler' = u.dm
             /\ removed' = IF remove THEN removed ELSE removed \ {item}
             /\ last' = DelayCall("update", item, period, remove, u.ret)
    /\ UNCHANGED <<now, delay_frame>>

\* next().await completes with Some(item) once an entry has expired
DelayNext ==
    /\ CallCount < MaxCalls
    /\ \E e \in QueueExpired(flush_handler.queue, now) :
         /\ flush_handler' = dm_next(flush_handler, e)
         /\ last' = DelayCall("next", e.item, 0, FALSE, TRUE)
    /\ UNCHANGED <<now, removed, delay_frame>>

\* next().await completes with None on an empty queue
DelayNextNone ==
    /\ CallCount < MaxCalls
    /\ flush_handler.queue = {}
    /\ last' = DelayCall("next", "none", 0, FALSE, FALSE)
    /\ UNCHANGED <<flush_handler, now, removed, delay_frame>>

\* time passes
Advance ==
    /\ now < MaxTime
    /\ now' = now + 1
    /\ UNCHANGED <<flush_handler, removed, last, delay_frame>>

DelayNextStep ==
    \/ DelayInsert
    \/ DelayReset
    \/ DelayRemove
    \/ DelayUpdate
    \/ DelayNext
    \/ DelayNextNone
    \/ Advance

DelayMapSpec == DelayInit /\ [][DelayNextStep]_vars

(* ------------------------------- C15 ----------------------------------- *)
\* the queue entry the key map holds for the item
EntryOf(dm, item) == CHOOSE e \in dm.queue : e.key = dm.map[item]
\* the entries of the other keys
OtherEntries(dm, item) == {e \in dm.queue : e.item # item}
\* the key map without the item
OtherKeys(dm, item) == MapRemove(dm.map, item)

C15_Step ==
    Called("update") =>
      LET item == last'.item
          deadline == now + last'.period
          dm == flush_handler
          dm2 == flush_handler'
          present == item \in DOMAIN dm.map
      IN  /\ (last'.remove /\ present) =>
                /\ last'.ret = TRUE
                /\ item \notin DOMAIN dm2.map
                /\ dm2.queue = dm.queue \ {EntryOf(dm, item)}
          /\ (last'.remove /\ ~present) =>
                /\ last'.ret = FALSE
                /\ dm2 = dm
          /\ (~last'.remove /\ present) =>
                /\ last'.ret = TRUE
                /\ item \in DOMAIN dm2.map
                /\ dm2.map[item] = dm.map[item]
                /\ EntryOf(dm2, item) =
                     [EntryOf(dm, item) EXCEPT !.deadline = deadline]
                /\ dm2.queue = (dm.queue \ {EntryOf(dm, item)})
                                 \cup {EntryOf(dm2, item)}
          /\ (~last'.remove /\ ~present) =>
                /\ last'.ret = TRUE
                /\ item \in DOMAIN dm2.map
                /\ dm2.map[item] \notin QueueKeys(dm.queue)
                /\ EntryOf(dm2, item).item = item
                /\ EntryOf(dm2, item).deadline = deadline
                /\ dm2.queue = dm.queue \cup {EntryOf(dm2, item)}
          /\ OtherEntries(dm2, item) = OtherEntries(dm, item)
          /\ OtherKeys(dm2, item) = OtherKeys(dm, item)

C16_MapMatchesQueue ==
    LET dm == flush_handler
    IN  /\ DOMAIN dm.map = {e.item : e \in dm.queue}
        /\ \A e \in dm.queue, f \in dm.queue : e.item = f.item => e = f
        /\ \A item \in DOMAIN dm.map :
             \E e \in dm.queue : e.key = dm.map[item] /\ e.item = item
        /\ dm_is_empty(dm) <=> (DOMAIN dm.map = {})

(* ------------------------------- C17 ----------------------------------- *)
C17_Step ==
    (Called("next") /\ last'.ret) => last'.item \notin removed

\* C17: with insert only used on absent keys, once remove(key) has been
\* called next() never returns the key unless it was scheduled again
\* afterwards, whatever was applied to the key before the remove.
C17_RemovedNeverFires == [][C17_Step]_vars

(* ======================================================================= *)
(*                               Stream                                    *)
(* ======================================================================= *)
\* a data point: the stream it is for, the producer's sequence number and
\* an opaque body
Bodies == {"x", "y"}
Payload(name, n, body) == [stream |-> name, sequence |-> n, body |-> body]

\* Stream::new(name, topic, capacity, data_tx): one empty Buffer
StreamNew(name, capacity) ==
    [name |-> name, capacity |-> capacity, buffer |-> <<>>]

\* Stream::dynamic: a Stream for a name that was not configured
StreamDynamic(name) == StreamNew(name, BufSize)

\* the Package a Buffer is sent as
BufferPackage(name, buffer) == [stream |-> name, buffer |-> buffer]

\* what the send on the outbound channel can result in
SendResults == {"Ok", "Err"}

\* fill emitting only once the buffer holds more than capacity
StreamFill_Late(st, item, res) ==
    LET b == Append(st.buffer, item)
    IN  IF Len(b) > st.capacity
        THEN [stream |-> [st EXCEPT !.buffer = <<>>],
              sent |-> IF res = "Ok"
                       THEN <<BufferPackage(st.name, b)>> ELSE <<>>,
              ret |-> IF res = "Ok" THEN "Flushed" ELSE "Err"]
        ELSE [stream |-> [st EXCEPT !.buffer = b],
              sent |-> <<>>, ret |-> "Filled"]

\* fill(item): append; a buffer that reached capacity is swapped for an
\* empty one and sent as a Package. ret is Ok(true), Ok(false) or Err
StreamFill(st, item, res) ==
    LET b == Append(st.buffer, item)
    IN  IF Len(b) >= st.capacity
        THEN [stream |-> [st EXCEPT !.buffer = <<>>],
              sent |-> IF res = "Ok"
                       THEN <<BufferPackage(st.name, b)>> ELSE <<>>,
              ret |-> IF res = "Ok" THEN "Flushed" ELSE "Err"]
        ELSE [stream |-> [st EXCEPT !.buffer = b],
              sent |-> <<>>, ret |-> "Filled"]

\* flush(): send whatever the buffer holds; a no-op on an empty buffer
StreamFlush(st, res) ==
    IF st.buffer = <<>>
    THEN [stream |-> st, sent |-> <<>>, ret |-> "Ok"]
    ELSE [stream |-> [st EXCEPT !.buffer = <<>>],
          sent |-> IF res = "Ok"
                   THEN <<BufferPackage(st.name, st.buffer)>> ELSE <<>>,
          ret |-> res]

(* ------------------ one Stream filled without a flush ------------------ *)
\* the call record of a Stream or StreamHandler method
HandlerCall(op, data, ret) ==
    [op |-> op, data |-> data, ret |-> ret, n |-> CallCount + 1]

\* what a call on the collector side leaves alone
stream_frame == <<ser_vars, removed, bridge>>

\* a Stream named 1 of some capacity, with its outbound channel alive
StreamInit ==
    /\ SerIdle
    /\ metrics = MetricsNew
    /\ flush_handler = DelayMapNew
    /\ now = 0
    /\ \E capacity \in 1..BufSize :
         streams = MapInsert(EmptyMap, 1, StreamNew(1, capacity))
    /\ data_tx = <<>>
    /\ last = NoCall
    /\ removed = {}
    /\ bridge = BridgeNew

Fill ==
    /\ CallCount < MaxFills
    /\ \E body \in Bodies :
         LET data == Payload(1, CallCount + 1, body)
             f == StreamFill(streams[1], data, "Ok")
         IN  /\ streams' = MapInsert(streams, 1, f.stream)
             /\ data_tx' = data_tx \o f.sent
             /\ last' = HandlerCall("fill", data, f.ret)
    /\ UNCHANGED <<flush_handler, now, stream_frame>>

StreamNextStep == Fill

StreamSpec == StreamInit /\ [][StreamNextStep]_vars

(* ======================================================================= *)
(*                            StreamHandler                                *)
(* ======================================================================= *)
\* StreamHandler::new: one Stream per configured stream, named 1..count
ConfiguredStreams(count, buf_size) ==
    [name \in 1..count |-> StreamNew(name, buf_size)]

\* handle_data updating the DelayMap for a payload it drops
handle_data_TimerOnDrop(ss, dm, data, t, res) ==
    LET name == data.stream
        known == name \in DOMAIN ss
    IN  IF ~known /\ Cardinality(DOMAIN ss) > StreamCap
        THEN [streams |-> ss,
              flush_handler |-> dm_update(dm, name, FlushPeriod, FALSE, t).dm,
              sent |-> <<>>, ret |-> "dropped"]
        ELSE
          LET f == StreamFill(IF known THEN ss[name] ELSE StreamDynamic(name),
                              data, res)
              u == dm_update(dm, name, FlushPeriod, f.ret = "Flushed", t)
          IN  IF f.ret = "Err"
              THEN [streams |-> MapInsert(ss, name, f.stream),
                    flush_handler |-> dm, sent |-> f.sent,
                    ret |-> "fill failed"]
              ELSE [streams |-> MapInsert(ss, name, f.stream),
                    flush_handler |-> u.dm, sent |-> f.sent,
                    ret |-> IF u.ret THEN "updated" ELSE "not updated"]

\* handle_data(data) on the stream map ss and the DelayMap dm at time t,
\* res being the result of the send fill may make
handle_data(ss, dm, data, t, res) ==
    LET name == data.stream
        known == name \in DOMAIN ss
    IN  IF ~known /\ Cardinality(DOMAIN ss) > StreamCap
        THEN [streams |-> ss, flush_handler |-> dm, sent |-> <<>>,
              ret |-> "dropped"]
        ELSE
          LET f == StreamFill(IF known THEN ss[name] ELSE StreamDynamic(name),
                              data, res)
              u == dm_update(dm, name, FlushPeriod, f.ret = "Flushed", t)
          IN  IF f.ret = "Err"
              THEN [streams |-> MapInsert(ss, name, f.stream),
                    flush_handler |-> dm, sent |-> f.sent,
                    ret |-> "fill failed"]
              ELSE [streams |-> MapInsert(ss, name, f.stream),
                    flush_handler |-> u.dm, sent |-> f.sent,
                    ret |-> IF u.ret THEN "updated" ELSE "not updated"]

\* the names payloads arrive for: two that producers keep using, and a name
\* no payload was seen for before
FreshName(ss) ==
    CHOOSE name \in 3..(Cardinality(DOMAIN ss) + 3) :
      /\ name \notin DOMAIN ss
      /\ \A other \in 3..(name - 1) : other \in DOMAIN ss
PayloadNames(ss) == {1, 2, FreshName(ss)}

\* the numbers of configured streams: none, one, and as many as leave room
\* for one or for no further stream under the cap
ConfiguredCounts == {0, 1, StreamCap - 1, StreamCap}

HandlerInit ==
    /\ SerIdle
    /\ metrics = MetricsNew
    /\ flush_handler = DelayMapNew
    /\ now = 0
    /\ \E count \in ConfiguredCounts, buf_size \in 1..BufSize :
         streams = ConfiguredStreams(count, buf_size)
    /\ data_tx = <<>>
    /\ last = NoCall
    /\ removed = {}
    /\ bridge = BridgeNew

\* the task running the StreamHandler has not panicked
HandlerAlive == last # NoCall => last.ret # "panicked"

HandleData ==
    /\ HandlerAlive
    /\ CallCount < MaxPayloads
    /\ \E name \in PayloadNames(streams), res \in SendResults :
         LET data == Payload(name, CallCount + 1, "x")
             h == handle_data(streams, flush_handler, data, now, res)
         IN  /\ streams' = h.streams
             /\ flush_handler' = h.flush_handler
             /\ data_tx' = data_tx \o h.sent
             /\ last' = HandlerCall("handle_data", data, h.ret)
    /\ UNCHANGED <<now, stream_frame>>

\* HandlerNext taking the expired key without flushing its stream
HandlerNext_NoFlush ==
    /\ HandlerAlive
    /\ \E e \in QueueExpired(flush_handler.queue, now) :
         /\ flush_handler' = dm_next(flush_handler, e)
         /\ last' = [op |-> "next", stream |-> e.item,
                     ret |-> IF e.item \in DOMAIN streams
                             THEN "Ok" ELSE "panicked",
                     n |-> CallCount]
    /\ UNCHANGED <<streams, data_tx, now, stream_frame>>

\* StreamHandler::next once the DelayMap yielded a key: the stream of that
\* name is flushed; the unwrap panics if there is none
HandlerNext ==
    /\ HandlerAlive
    /\ \E e \in QueueExpired(flush_handler.queue, now), res \in SendResults :
         /\ flush_handler' = dm_next(flush_handler, e)
         /\ IF e.item \in DOMAIN streams
            THEN LET f == StreamFlush(streams[e.item], res)
                 IN  /\ streams' = MapInsert(streams, e.item, f.stream)
                     /\ data_tx' = data_tx \o f.sent
                     /\ last' = [op |-> "next", stream |-> e.item,
                                 ret |-> f.ret, n |-> CallCount]
            ELSE /\ UNCHANGED <<streams, data_tx>>
                 /\ last' = [op |-> "next", stream |-> e.item,
                             ret |-> "panicked", n |-> CallCount]
    /\ UNCHANGED <<now, stream_frame>>

\* time passes
Tick ==
    /\ now < MaxTime
    /\ now' = now + 1
    /\ UNCHANGED <<flush_handler, streams, data_tx, last, stream_frame>>

HandlerNextStep ==
    \/ HandleData
    \/ HandlerNext
    \/ Tick

StreamHandlerSpec == HandlerInit /\ [][HandlerNextStep]_vars

(* ------------------------------- C18 ----------------------------------- *)
StreamCount == Cardinality(DOMAIN streams)

C18_Step ==
    (Called("handle_data") /\ last'.data.stream \notin DOMAIN streams) =>
      IF StreamCount < 20
      THEN last'.data.stream \in DOMAIN streams'
      ELSE /\ streams' = streams
           /\ flush_handler' = flush_handler
           /\ data_tx' = data_tx

\* C18: in every run of a StreamHandler the number of live streams never
\* exceeds 20: a payload for an unknown stream name creates a dynamic
\* stream only while fewer than 20 streams exist, and is otherwise dropped,
\* leaving the stream map, every buffer and the DelayMap unchanged.
C18_StreamCap == [](StreamCount <= 20) /\ [][C18_Step]_vars

(* ------------------------------- C19 ----------------------------------- *)
\* C19: in every reachable state of a StreamHandler the keys with a pending
\* deadline in the DelayMap are names of streams in the stream map, so the
\* lookup of StreamHandler::next never fails and its unwrap never panics.
C19_KeysAreStreams ==
    /\ DOMAIN flush_handler.map \subseteq DOMAIN streams
    /\ \A e \in flush_handler.queue : e.item \in DOMAIN streams
    /\ HandlerAlive

\* reached: next has flushed the buffer of a dynamic stream whose deadline
\* had passed, while another stream still has a deadline pending and a
\* payload for one more unknown name was turned away
C19_Witness ==
    /\ last # NoCall
    /\ last.op = "next"
    /\ last.ret = "Ok"
    /\ last.stream >= 3
    /\ data_tx # <<>>
    /\ flush_handler.queue # {}
    /\ StreamCount > StreamCap
    /\ last.n = 3

(* ------------------------------- C20 ----------------------------------- *)
\* the Stream under study and the number of fills made so far
TheStream == streams[1]
Fills == CallCount

\* the i-th Package holds the payloads of the fills (i-1)N+1 .. iN, in the
\* order they were filled
Contiguous(i) ==
    /\ Len(data_tx[i].buffer) = TheStream.capacity
    /\ \A j \in 1..TheStream.capacity :
         data_tx[i].buffer[j].sequence = (i - 1) * TheStream.capacity + j

C20_State ==
    /\ Len(data_tx) = Fills \div TheStream.capacity
    /\ \A i \in 1..Len(data_tx) : Contiguous(i)
    /\ Len(TheStream.buffer) <= TheStream.capacity
    /\ Len(TheStream.buffer) = Fills % TheStream.capacity

C20_Step ==
    Called("fill") =>
      /\ (last'.ret = "Flushed") <=> (Len(data_tx') = Len(data_tx) + 1)
      /\ (last'.ret # "Flushed") => (data_tx' = data_tx)
      /\ last'.ret \in {"Flushed", "Filled"}

\* C20: for every payload sequence filled into a Stream of capacity N with
\* no flush in between, floor(K/N) full Packages have been emitted after
\* K fills, fill returns true exactly on the fills that emit, every
\* Package holds N contiguous payloads in insertion order, and the buffer
\* never holds more than N payloads.
C20_FillBatches == [](C20_State) /\ [][C20_Step]_vars

\* reached: a Stream of capacity 2 has emitted its third Package on the
\* sixth fill
C20_Witness ==
    /\ last # NoCall
    /\ last.op = "fill"
    /\ last.ret = "Flushed"
    /\ TheStream.capacity = 2
    /\ Len(data_tx) = 3
    /\ Fills = 6
    /\ TheStream.buffer = <<>>

(* ------------------------------- C21 ----------------------------------- *)
\* how many times the spool was handed the Publish p
TimesSpooled(p) ==
    Cardinality({i \in 1..Len(spooled) : SamePublish(spooled[i], p)})
\* a write of crash mode failed before
CrashWriteFailed ==
    \E i \in 1..Len(logged) :
      logged[i].at = "crash" /\ logged[i].msg = FillFailed

\* the Publish carried by EventLoopCrash was read from the spool, which
\* held it once; written again in crash mode it was handed over twice
C21_Step ==
    (pc = "crash" /\ Received) =>
      (TimesSpooled(status_publish) >= 2 \/ CrashWriteFailed)

\* C21: on entering crash mode the reclaimed publish carried by
\* EventLoopCrash is written to the spool first, before any Package
\* received afterwards is written, so the record in flight when the event
\* loop crashed is not lost.
C21_CrashWritesFirst == [][C21_Step]_vars

(* ------------------------------- C22 ----------------------------------- *)
\* the blocking publish of the stalled packet completed successfully
StalledCompleted ==
    pc = "disk" /\ ClientCalled /\ TheCall.via = "disk" /\ TheCall.result = "Ok"
\* the number of stalled publishes that completed successfully
Completions == Len(SelectSeq(calls, LAMBDA c : c.via = "disk" /\ IsOk(c)))
\* the number of times Normal was left for SlowEventloop
Stalls == Len(SelectSeq(calls, LAMBDA c : c.via = "try"
                                          /\ c.result = "TryRequest"))

C22_Step ==
    /\ StalledCompleted =>
         /\ status' = "EventLoopReady"
         /\ pc' = "dispatch"
         /\ chan' = chan
         /\ spool' = spool
         /\ spooled' = spooled
    /\ (pc = "disk" /\ Received) => Completions < Stalls

\* C22: in disk mode the completion of the stalled publish takes
\* precedence: once it has completed successfully the serializer leaves
\* disk mode for EventLoopReady and writes no further Package to the spool
\* in that mode, even if more Packages are ready on the collector channel.
C22_CompletionEndsDisk == [][C22_Step]_vars

\* reached: the stalled publish has just completed, the serializer is back
\* at EventLoopReady, and a Package is still waiting on the channel
C22_Witness ==
    /\ pc = "dispatch"
    /\ status = "EventLoopReady"
    /\ calls # <<>>
    /\ Last(calls).via = "disk"
    /\ Last(calls).result = "Ok"
    /\ chan # <<>>

(* ======================================================================= *)
(*                      The serializer under fair scheduling               *)
(* ======================================================================= *)
\* every blocking publish completed so far completed successfully
BlockingPublishesOk ==
    \A i \in 1..Len(calls) :
      calls[i].via \in {"disk", "catchup"} => calls[i].result = "Ok"
\* no spool error has occurred
NoSpoolError == logged = <<>>
\* the environment recovery is studied in: the client completes the
\* blocking publishes, the disk does not fail, and the producers keep
\* their Senders whether or not they send
Cooperative == BlockingPublishesOk /\ NoSpoolError /\ senders_open

LiveInit == Init /\ storage

LiveProduce == Produce /\ Cooperative'
LiveStart == Start /\ Cooperative'
LiveDiskEnter == DiskEnter /\ Cooperative'
LiveDiskRecv == DiskRecv /\ Cooperative'
LiveDiskPublishDone == DiskPublishDone /\ Cooperative'
LiveCatchupEnter == CatchupEnter /\ Cooperative'
LiveCatchupRecv == CatchupRecv /\ Cooperative'
LiveCatchupSendOk == CatchupSendOk /\ Cooperative'
LiveNormalEnter == NormalEnter /\ Cooperative'
LiveNormalRecv == NormalRecv /\ Cooperative'
LiveNormalTick == NormalTick /\ Cooperative'

LiveNext ==
    \/ LiveProduce
    \/ LiveStart
    \/ LiveDiskEnter
    \/ LiveDiskRecv
    \/ LiveDiskPublishDone
    \/ LiveCatchupEnter
    \/ LiveCatchupRecv
    \/ LiveCatchupSendOk
    \/ LiveNormalEnter
    \/ LiveNormalRecv
    \/ LiveNormalTick

\* Serializer::start keeps running: the mode it has returned to the loop
\* with is entered, and select! polls its arms in random order, so an arm
\* that stays ready is taken.
Fairness ==
    /\ WF_vars(LiveStart)
    /\ WF_vars(LiveDiskEnter)
    /\ WF_vars(LiveCatchupEnter)
    /\ WF_vars(LiveNormalEnter)
    /\ WF_vars(LiveDiskRecv)
    /\ WF_vars(LiveDiskPublishDone)
    /\ WF_vars(LiveCatchupRecv)
    /\ WF_vars(LiveCatchupSendOk)

LiveSpec == LiveInit /\ [][LiveNext]_vars /\ Fairness

(* ------------------------------- C23 ----------------------------------- *)
Recovered == status = "Normal" /\ spool = <<>>
\* catchup is waiting for the publish of a record to complete
Draining == pc = "catchup" /\ send # NoPublish

SendsOk == last = NoCall \/ last.ret \notin {"fill failed", "Err", "panicked"}

LiveHandleData == HandleData /\ SendsOk'
LiveHandlerNext == HandlerNext /\ SendsOk'

\* time passes until the deadlines that are pending have expired; the
\* clock is not read while there is none
LiveTick ==
    /\ \E e \in flush_handler.queue : e.deadline > now
    /\ now' = now + 1
    /\ UNCHANGED <<flush_handler, streams, data_tx, last, stream_frame>>

LiveHandlerNextStep ==
    \/ LiveHandleData
    \/ LiveHandlerNext
    \/ LiveTick

\* collect's select! polls stream_handler.next() whenever is_empty() is
\* false, and the clock runs
HandlerFairness ==
    /\ WF_vars(LiveHandlerNext)
    /\ WF_vars(LiveTick)

LiveHandlerSpec ==
    HandlerInit /\ [][LiveHandlerNextStep]_vars /\ HandlerFairness

(* ------------------------------- C24 ----------------------------------- *)
\* the payload with sequence number n waits in the buffer of a stream
InBuffer(n) ==
    \E name \in DOMAIN streams :
      \E j \in 1..Len(streams[name].buffer) :
        streams[name].buffer[j].sequence = n
\* the places of the outbound channel that hold the payload n
Emissions(n) ==
    {<<i, j>> \in (1..Len(data_tx)) \X (1..BufSize) :
       j <= Len(data_tx[i].buffer) /\ data_tx[i].buffer[j].sequence = n}
EmittedOnce(n) == Cardinality(Emissions(n)) = 1
\* handle_data took the payload n: it was not turned away at the cap
Accepted(n) == InBuffer(n) \/ Emissions(n) # {}

C24_State ==
    \A n \in 1..MaxPayloads :
      /\ Cardinality(Emissions(n)) <= 1
      /\ InBuffer(n) => Emissions(n) = {}

\* the flush of a stream whose deadline fired leaves it without a deadline
C24_Step ==
    Called("next") =>
      /\ last'.stream \notin DOMAIN flush_handler'.map
      /\ \A e \in flush_handler'.queue : e.item # last'.stream
      /\ streams'[last'.stream].buffer = <<>>

HasDeadline(name) ==
    \/ name \in DOMAIN flush_handler.map
    \/ \E e \in flush_handler.queue : e.item = name

C25_State ==
    /\ \A name \in DOMAIN streams :
         HasDeadline(name) <=> (streams[name].buffer # <<>>)
    /\ \A e \in flush_handler.queue :
         /\ e.item \in DOMAIN flush_handler.map
         /\ flush_handler.map[e.item] = e.key

\* a deadline fires for a buffer that holds something
C25_Step ==
    Called("next") => streams[last'.stream].buffer # <<>>

\* C25: between the operations of a StreamHandler, fill and flush
\* succeeding, a stream has a pending deadline in the DelayMap if and only
\* if its buffer is non-empty: no non-empty buffer is left without a flush
\* timer, and a timer never fires for an empty buffer.
C25_DeadlineIffBuffered == [](C25_State) /\ [][C25_Step]_vars

\* reached: one stream has emitted a full buffer and has no deadline, while
\* another holds a payload and has one
C25_Witness ==
    /\ last # NoCall
    /\ last.op = "handle_data"
    /\ last.ret = "updated"
    /\ data_tx # <<>>
    /\ \E name \in DOMAIN streams, other \in DOMAIN streams :
         /\ streams[name].buffer = <<>>
         /\ data_tx[1].stream = name
         /\ ~HasDeadline(name)
         /\ streams[other].buffer # <<>>
         /\ HasDeadline(other)

(* ------------------------------- C26 ----------------------------------- *)
\* the run started with an empty spool: every record it held is a Package
\* of this run
StartedEmpty == \A i \in 1..Len(spooled) : spooled[i].payload.content[1] > 0
NoEviction == evictions = 0
\* something was spilled, and catchup has read all of it back
SpilledAndDrained ==
    /\ spooled # <<>>
    /\ Len(drained) = Len(spooled)
    /\ spool = <<>>

\* C26: starting from an empty spool with total_disk_size 0, after any
\* spill in disk mode followed by a complete catchup, with no spool error
\* and no segment eviction, the serializer is back in Normal with
\* total_disk_size 0: the sizes write_to_storage added are exactly the
\* sizes subtracted during the drain.
C26_DiskSizeReturns ==
    (/\ status = "Normal"
     /\ StartedEmpty
     /\ NoSpoolError
     /\ NoEviction
     /\ SpilledAndDrained)
      => metrics.total_disk_size = 0

(* ------------------------------- C27 ----------------------------------- *)
\* the data Packages the client accepted, in the order it accepted them
DataCalls ==
    SelectSeq(calls, LAMBDA c : c.topic = DataTopic /\ c.result = "Ok")
\* the position, in the order of receipt from the collector, of the Package
\* the i-th accepted data publish carries
ReceivedAs(i) == DataCalls[i].payload.content[1]
PublishedVia(via) == \E i \in 1..Len(DataCalls) : DataCalls[i].via = via

MaxActions == 2
MaxFrames == 2

\* the stream a response to an action arrives on
ActionStatusStream == 0
\* Duration::from_secs(10)
ActionTimeout == 10

\* action ids, in the order the actions are sent
ActionId(n) == <<"a1", "a2", "a3">>[n]

\* ActionResponse::failure(id, error)
ActionResponseFailure(id, error) ==
    [id |-> id, state |-> "Failed", errors |-> <<error>>]

BridgeInit ==
    /\ SerIdle
    /\ metrics = MetricsNew
    /\ flush_handler = DelayMapNew
    /\ now = 0
    /\ \E count \in {0, 1}, buf_size \in 1..BufSize :
         streams = ConfiguredStreams(count, buf_size)
    /\ data_tx = <<>>
    /\ last = NoCall
    /\ removed = {}
    /\ bridge = BridgeNew

\* collect has not returned, and the task has not panicked
Collecting == bridge.result = "running" /\ HandlerAlive

\* the state of Bridge.stream_handler
handler_state == <<flush_handler, streams, data_tx>>

\* a Sender of the actions channel sends an Action
SendAction ==
    /\ Collecting
    /\ bridge.actions_open
    /\ bridge.actions < MaxActions
    /\ bridge' = [bridge EXCEPT
                    !.actions = @ + 1,
                    !.actions_rx = Append(@, ActionId(bridge.actions + 1))]
    /\ UNCHANGED <<now, last, handler_state, ser_vars, removed>>

\* the last Sender of the actions channel is dropped
DropActionSenders ==
    /\ Collecting
    /\ bridge.actions_open
    /\ bridge' = [bridge EXCEPT !.actions_open = FALSE]
    /\ UNCHANGED <<now, last, handler_state, ser_vars, removed>>

\* the lines the application may send: a data point of stream 1, or its
\* response to an action it was given and has not answered yet
AppPayloads ==
    {Payload(1, bridge.frames + 1, "x")}
      \cup {Payload(ActionStatusStream, bridge.frames + 1, id) :
              id \in {bridge.written[i] : i \in 1..Len(bridge.written)}
                       \ bridge.answered}

\* frame = framed.next(), a line that deserializes: a response to an action
\* takes current_action and is dropped if there was none; every other
\* payload, and the response that found an action, goes to handle_data
CollectFrame ==
    /\ Collecting
    /\ bridge.frames < MaxFrames
    /\ \E data \in AppPayloads, res \in SendResults :
         LET response == data.stream = ActionStatusStream
             h == handle_data(streams, flush_handler, data, now, res)
         IN  IF response /\ bridge.current_action = <<>>
             THEN /\ bridge' = [bridge EXCEPT
                        !.frames = @ + 1,
                        !.answered = @ \cup {data.body}]
                  /\ last' = HandlerCall("drop", data,
                                         "Action timed out already")
                  /\ UNCHANGED handler_state
             ELSE /\ streams' = h.streams
                  /\ flush_handler' = h.flush_handler
                  /\ data_tx' = data_tx \o h.sent
                  /\ last' = HandlerCall("handle_data", data, h.ret)
                  /\ bridge' = [bridge EXCEPT
                        !.frames = @ + 1,
                        !.answered = IF response
                                     THEN @ \cup {data.body} ELSE @,
                        !.current_action = IF response THEN <<>> ELSE @,
                        !.handled = IF response THEN Append(@, data) ELSE @]
    /\ UNCHANGED <<now, ser_vars, removed>>

\* a line that does not deserialize: logged, continue
CollectBadFrame ==
    /\ Collecting
    /\ bridge.frames < MaxFrames
    /\ bridge' = [bridge EXCEPT !.frames = @ + 1]
    /\ UNCHANGED <<now, last, handler_state, ser_vars, removed>>

\* the connection ended, or the codec failed: collect returns the error
CollectStreamDone ==
    /\ Collecting
    /\ \E e \in {"StreamDone", "Codec"} :
         bridge' = [bridge EXCEPT !.result = e]
    /\ UNCHANGED <<now, last, handler_state, ser_vars, removed>>

\* action = actions_rx.recv_async(): the action becomes current_action,
\* action_timeout is reset to 10 s from now, and the action is written to
\* the application unless it does not serialize; a failed write ends collect
CollectAction ==
    /\ Collecting
    /\ bridge.actions_rx # <<>>
    /\ \E o \in {"Ok", "Serialization", "Io"} :
         LET action == Head(bridge.actions_rx)
         IN  /\ bridge' = [bridge EXCEPT
                   !.actions_rx = Tail(@),
                   !.current_action = <<action>>,
                   !.action_timeout = now + ActionTimeout,
                   !.written = IF o = "Ok" THEN Append(@, action) ELSE @,
                   !.result = IF o = "Io" THEN "Io" ELSE @]
             /\ last' = [op |-> "action", action |-> action, ret |-> o,
                         n |-> CallCount + 1]
    /\ UNCHANGED <<now, handler_state, ser_vars, removed>>

\* recv_async on the actions channel with every Sender gone: let action =
\* action? returns the error
CollectActionClosed ==
    /\ Collecting
    /\ bridge.actions_rx = <<>>
    /\ ~bridge.actions_open
    /\ bridge' = [bridge EXCEPT !.result = "Recv"]
    /\ UNCHANGED <<now, last, handler_state, ser_vars, removed>>

\* _ = &mut action_timeout, if current_action.is_some(): the action is
\* taken and a failure is filled into action_status; an error of fill is
\* only logged
CollectTimeout ==
    /\ Collecting
    /\ bridge.current_action # <<>>
    /\ now >= bridge.action_timeout
    /\ LET action == bridge.current_action[1]
       IN  /\ bridge' = [bridge EXCEPT
                 !.current_action = <<>>,
                 !.action_status =
                     Append(@, ActionResponseFailure(action,
                                                     "Action timed out"))]
           /\ last' = [op |-> "timeout", action |-> action, ret |-> "Ok",
                       n |-> CallCount + 1]
    /\ UNCHANGED <<now, handler_state, ser_vars, removed>>

\* _ = stream_handler.next(), if !stream_handler.is_empty()
CollectFlush ==
    /\ Collecting
    /\ ~dm_is_empty(flush_handler)
    /\ HandlerNext

\* the deadlines collect is waiting for: those of the DelayQueue, and that
\* of action_timeout while an action is pending
Deadlines ==
    {e.deadline : e \in flush_handler.queue}
      \cup (IF bridge.current_action # <<>>
            THEN {bridge.action_timeout} ELSE {})

\* time passes, up to the next deadline
BridgeTick ==
    /\ Collecting
    /\ \E d \in Deadlines :
         /\ d > now
         /\ \A other \in Deadlines : other > now => d <= other
         /\ now' = d
    /\ UNCHANGED <<bridge, last, handler_state, ser_vars, removed>>

BridgeNext ==
    \/ SendAction
    \/ DropActionSenders
    \/ CollectFrame
    \/ CollectBadFrame
    \/ CollectStreamDone
    \/ CollectAction
    \/ CollectActionClosed
    \/ CollectTimeout
    \/ CollectFlush
    \/ BridgeTick

\* select! polls action_timeout whenever current_action is set, and time
\* passes
BridgeFairness == WF_vars(CollectTimeout) /\ WF_vars(BridgeTick)

BridgeSpec == BridgeInit /\ [][BridgeNext]_vars /\ BridgeFairness

(* ------------------------------- C28 ----------------------------------- *)
\* the action was written to the connected application
Forwarded(id) == \E i \in 1..Len(bridge.written) : bridge.written[i] = id
\* the responses of the application to the action that reached the
\* StreamHandler, and the timeout failures filled for it
Responses(id) ==
    Cardinality({i \in 1..Len(bridge.handled) : bridge.handled[i].body = id})
Timeouts(id) ==
    Cardinality({i \in 1..Len(bridge.action_status) :
                   bridge.action_status[i].id = id})
Outcomes(id) == Responses(id) + Timeouts(id)
ConnectionClosed == bridge.result # "running"

\* a response that arrives when no action is pending changes nothing in
\* the StreamHandler
C28_Step ==
    (/\ last' # last
     /\ last'.op \in {"handle_data", "drop"}
     /\ last'.data.stream = ActionStatusStream
     /\ bridge.current_action = <<>>)
      => /\ last'.op = "drop"
         /\ UNCHANGED handler_state

\* C28: for every action forwarded to the connected application, actions
\* that arrive while an earlier one is pending included, exactly one
\* outcome is reported while the connection stays open: one action_status
\* payload of the application handed to the StreamHandler or one "Action
\* timed out" failure filled after the timeout, never both; and an
\* action_status payload that arrives when no action is pending is dropped
\* without reaching the StreamHandler.
C28_ExactlyOneOutcome ==
    /\ [](\A n \in 1..MaxActions : Outcomes(ActionId(n)) <= 1)
    /\ [][C28_Step]_vars
    /\ \A n \in 1..MaxActions :
         Forwarded(ActionId(n))
           ~> (Outcomes(ActionId(n)) = 1 \/ ConnectionClosed)

====
